---- MODULE Spec2Model ----
(***************************************************************************)
(* CSB Open API: the http server's transaction handlers (publish, cancel,  *)
(* status stream, close), the work queue they drive, and the student       *)
(* reconciliation (RefreshStudents) a published transaction executes.      *)
(***************************************************************************)
EXTENDS Integers, Sequences, FiniteSets, TLC

\* ------------------------------------------------------------------ bounds
\* Requests of each kind the server receives in one run.
MaxPub == 2
MaxCancel == 2
MaxSub == 1
MaxClose == 2
\* Refresh requests in a run that shuts the server down.
MaxClosePub == 1
\* refresh.N of a transaction published over http, and of a direct call.
MaxJobN == 1
MaxN == 3
\* refresh.StartPID
FirstPID == 100

\* Full periods of one pupil, and marks in one upstream marksheet.
MaxPeriods == 2
MaxUp == 1

\* engage.RequestTimeout, in seconds: the pause after each upstream fetch.
RequestTimeout == 2

Jobs == 1 .. MaxPub
PIDs == FirstPID .. (FirstPID + MaxN - 1)

\* ------------------------------------------------------------- error.go
ECONFLICT == "conflict"
EINTERNAL == "internal"
EINVALID == "invalid"
ENOTFOUND == "not_found"
ENOTIMPLEMENTED == "not_implemented"
EUNAUTHORIZED == "unauthorized"

\* An error value: nil, a *csb.Error (code, message) or any other error.
Nil == [kind |-> "nil", code |-> "", msg |-> ""]
Errorf(code, msg) == [kind |-> "csb", code |-> code, msg |-> msg]
PlainErr(msg) == [kind |-> "plain", code |-> "", msg |-> msg]

ErrorCode(err) ==
    IF err = Nil THEN ""
    ELSE IF err.kind = "csb" THEN err.code
    ELSE EINTERNAL

\* ErrorMessage: for a *csb.Error the function returns e.Code.
ErrorMessage(err) ==
    IF err = Nil THEN ""
    ELSE IF err.kind = "csb" THEN err.code
    ELSE "internal error"

\* ctx.Err() of a cancelled context, and what wraps it (errors.Is sees through).
CtxErr == PlainErr("context canceled")
WrapRefresh(err) == PlainErr("refresh students: " \o err.msg)
CancellationErrs == {CtxErr, WrapRefresh(CtxErr)}

\* ---------------------------------------------------------------- state
VARIABLES
    upstream,   \* engage: pid -> "absent" | "attending" | "left"
    local,      \* students table (committed): pid -> row | Absent
    ctxDone,    \* job -> the transaction's context is cancelled
    rs,         \* job -> the RefreshStudents call the job runs
    nextId,     \* work queue: the id the next Publish assigns
    qclosed,    \* work queue: Close has been called
    events,     \* work queue: job -> the statuses emitted so far, in order
    published,  \* work queue: the ids assigned, in publish order
    closed,     \* Server.closed
    allocated,  \* Server.cancelTransactions is not the nil map
    ct,         \* Server.cancelTransactions: id -> the job its cancel func cancels
    mu,         \* Server.transactionMu: <<>> or the handler holding it
    fatal,      \* the runtime has thrown on a concurrent map access
    pub,        \* the handleRefreshStudent requests
    can,        \* the handleCancelTransaction requests
    sub,        \* the handleTransactionUpdates requests
    cls,        \* the callers of Server.Close
    marks,      \* marks table (committed): the rows in insertion order
    marks0,     \* the marks table as it was when the run began
    upMarks,    \* engage: period -> the marks of the pupil's marksheet
    fallback,   \* MarkService.fallback, StudentService.fallback
    fm,         \* the last FindMarksByPeriod call and what it returned
    rm,         \* the RefreshMarks call
    fs,         \* the last FindStudentByPID call and what it returned
    pr          \* engage: the render handed to GetMarkFromRender and the results

storeVars == <<upstream, local>>
queueVars == <<nextId, qclosed, events, published>>
serverVars == <<closed, allocated, ct, mu, fatal>>
handlerVars == <<pub, can, sub, cls>>
markVars == <<marks, marks0, upMarks, fallback, fm, rm, fs, pr>>
vars == <<upstream, local, ctxDone, rs, nextId, qclosed, events, published,
          closed, allocated, ct, mu, fatal, pub, can, sub, cls, markVars>>

Absent == [present |-> FALSE, attends |-> FALSE]
Row(attends) == [present |-> TRUE, attends |-> attends]
Rows == {Absent, Row(TRUE), Row(FALSE)}
NoTx == <<>>

\* A call that has not started.
\* before: the students table as it was when the call began.
\* writes: the INSERT, UPDATE and DELETE statements the call has executed.
\* marks: the marks table as the call's transaction sees it.
IdleCall == [pc |-> "idle", start |-> FirstPID, n |-> 0, purge |-> FALSE,
             i |-> 0, pid |-> FirstPID, tx |-> NoTx, err |-> Nil, before |-> NoTx,
             writes |-> 0, marks |-> NoTx, waited |-> 0]

\* ------------------------------------------------- sqlite student service
\* What one upstream fetch or local statement does besides its result.
Faults == {"none", "upstream", "query", "write"}

\* Fault: an empty answer of engage reported as an internal error.
findStudentByPIDEngageInternal(done, pid, fault) ==
    IF done THEN [student |-> Absent, err |-> CtxErr]
    ELSE IF fault = "upstream" \/ pid \notin PIDs \/ upstream[pid] = "absent"
    THEN [student |-> Absent, err |-> Errorf(EINTERNAL, "engage: error body empty")]
    ELSE [student |-> Row(upstream[pid] = "attending"), err |-> Nil]
\* findStudentByPIDEngage: the student, or the error of the first failing call.
\* An unknown pupil is an empty answer of GetAcademicYears, which post turns
\* into ENOTFOUND; a cancelled context fails the http exchange.
findStudentByPIDEngage(done, pid, fault) ==
    IF done THEN [student |-> Absent, err |-> CtxErr]
    ELSE IF fault = "upstream"
    THEN [student |-> Absent, err |-> Errorf(EINTERNAL, "engage: error body empty")]
    ELSE IF pid \notin PIDs \/ upstream[pid] = "absent"
    THEN [student |-> Absent, err |-> Errorf(ENOTFOUND, "engage: invalid PID")]
    ELSE [student |-> Row(upstream[pid] = "attending"), err |-> Nil]

findStudentByPID(tx, pid, fault) ==
    IF fault = "query" THEN [student |-> Absent, err |-> PlainErr("sql")]
    ELSE IF pid \notin PIDs \/ ~tx[pid].present
    THEN [student |-> Absent, err |-> Errorf(ENOTFOUND, "student not found")]
    ELSE [student |-> tx[pid], err |-> Nil]

\* createStudent: the INSERT lists its columns with a comma before the
\* closing parenthesis, which SQLite rejects whatever the row: nothing is
\* written and the statement's error is returned.
createStudent(tx, pid, student, fault) ==
    [tx |-> tx, err |-> PlainErr("sql: syntax error"), wrote |-> 0]

\* updateStudent: the UPDATE is executed whatever prev and next are (it sets
\* updated_at); wrote counts the statements that changed the table.
updateStudent(tx, pid, prev, next, fault) ==
    IF fault = "write" THEN [tx |-> tx, err |-> PlainErr("sql"), wrote |-> 0]
    ELSE [tx |-> [tx EXCEPT ![pid] = Row(next.attends)], err |-> Nil, wrote |-> 1]

deleteStudent(tx, pid, fault) ==
    LET found == findStudentByPID(tx, pid, "none") IN
    IF found.err # Nil THEN [tx |-> tx, err |-> found.err, wrote |-> 0]
    ELSE IF fault = "write" THEN [tx |-> tx, err |-> PlainErr("sql"), wrote |-> 0]
    ELSE [tx |-> [tx EXCEPT ![pid] = Absent], err |-> Nil, wrote |-> 1]

\* attachSubjectCodeToStudent, the function of the repository that attaches a
\* subject code to a student: its SELECT ends the column list with a comma
\* before FROM and its INSERT with a comma before the closing parenthesis;
\* SQLite rejects the first statement, nothing is attached and its error is
\* returned.
attachSubjectCode(subjects, code) ==
    [subjects |-> subjects, err |-> PlainErr("sql: syntax error")]

\* The zero value of csb.Subject has the empty engage code.
ZeroCode == ""
\* updateStudent, addSubjects: nil when the two lists have the same length;
\* otherwise make([]csb.Subject, diff), that many zero values, with the
\* subjects of next whose code prev lacks appended after them. A negative
\* diff makes make panic.
addSubjects(prev, next) ==
    LET diff == Len(next) - Len(prev)
        absent == SelectSeq(next, LAMBDA v : \A i \in 1 .. Len(prev) : prev[i] # v)
    IN  IF diff = 0 THEN [panic |-> FALSE, list |-> <<>>]
        ELSE IF diff < 0 THEN [panic |-> TRUE, list |-> <<>>]
        ELSE [panic |-> FALSE, list |-> [k \in 1 .. diff |-> ZeroCode] \o absent]

\* updateStudent, "add new subjects": attachSubjectCode for each entry of
\* addSubjects in order; the first error is returned.
RECURSIVE attachEach(_, _, _)
attachEach(subjects, list, k) ==
    IF k > Len(list) THEN [subjects |-> subjects, err |-> Nil]
    ELSE LET a == attachSubjectCode(subjects, list[k]) IN
         IF a.err # Nil THEN a ELSE attachEach(a.subjects, list, k + 1)

\* updateStudent as to the subjects of the student: the subjects the student
\* takes once it has returned, its error, or a panic.
updateStudentSubjects(prev, next) ==
    LET add == addSubjects(prev, next)
        attached == attachEach(prev, add.list, 1)
    IN  IF add.panic THEN [kind |-> "panic", subjects |-> prev, err |-> Nil]
        ELSE IF attached.err # Nil
        THEN [kind |-> "err", subjects |-> attached.subjects, err |-> attached.err]
        ELSE [kind |-> "ok", subjects |-> attached.subjects, err |-> Nil]

\* The subject lists updateStudent is given: up to MaxSubjects engage codes,
\* none twice.
MaxSubjects == 2
EngageCodes == {"MA", "PH", "AR"}
SubjectLists ==
    {l \in UNION {[1 .. k -> EngageCodes] : k \in 0 .. MaxSubjects} :
        \A i, k \in 1 .. Len(l) : i # k => l[i] # l[k]}

\* updateStudent applied to a local and an upstream list of subjects.
UpdateStudentSubjects ==
    /\ ~fatal
    /\ pr.pc = "subjects"
    /\ pr' = [pc |-> "updated", prev |-> pr.prev, next |-> pr.next,
              res |-> updateStudentSubjects(pr.prev, pr.next)]
    /\ UNCHANGED <<storeVars, marks, marks0, upMarks, fallback, fm, rm, fs, ctxDone, rs,
                   queueVars, serverVars, handlerVars>>

\* marks.student_id REFERENCES students (pid) ON DELETE CASCADE: the marks left
\* once the rows of students that are gone have taken theirs along.
Cascade(students, rows) ==
    SelectSeq(rows, LAMBDA m : m.pid \in PIDs /\ students[m.pid].present)

\* Fault: a student of the table that engage does not know is deleted.
RefreshOneOrphans(tx, done, pid, purge, fault) ==
    IF findStudentByPIDEngage(done, pid, fault).err = Nil
    THEN [tx |-> tx, err |-> Nil, wrote |-> 0]
    ELSE deleteStudent(tx, pid, fault)
\* One pass of the loop body of RefreshStudents up to PIDCount++.
RefreshOne(tx, done, pid, purge, fault) ==
    LET engage == findStudentByPIDEngage(done, pid, fault)
        loc == findStudentByPID(tx, pid, fault)
        studentEngage == engage.student
        studentLocal == loc.student
    IN  IF engage.err # Nil /\ ErrorCode(engage.err) # ENOTFOUND
        THEN [tx |-> tx, err |-> engage.err, wrote |-> 0]
        ELSE IF loc.err # Nil /\ ErrorCode(loc.err) # ENOTFOUND
        THEN [tx |-> tx, err |-> loc.err, wrote |-> 0]
        ELSE IF ~studentEngage.present /\ ~studentLocal.present
        THEN [tx |-> tx, err |-> Nil, wrote |-> 0]
        ELSE IF studentEngage.present /\ ~studentLocal.present
        THEN IF ~studentEngage.attends /\ purge
             THEN [tx |-> tx, err |-> Nil, wrote |-> 0]
             ELSE createStudent(tx, pid, studentEngage, fault)
        ELSE IF studentEngage.present /\ studentLocal.present
        THEN IF ~studentEngage.attends /\ purge
             THEN deleteStudent(tx, pid, fault)
             ELSE updateStudent(tx, pid, studentLocal, studentEngage, fault)
        ELSE [tx |-> tx, err |-> Nil, wrote |-> 0]

\* FindStudentByPID(ctx, pid): the student of the table, else the student of
\* engage, saved when s.fallback is set; an error of that save is dropped and
\* the student returned without a commit.
FindStudentByPID(pid) ==
    /\ ~fatal
    /\ \E fault \in {"none", "begin", "query", "upstream"} :
        LET loc == findStudentByPID(local, pid, fault)
            eng == findStudentByPIDEngage(FALSE, pid, fault)
            saved == createStudent(local, pid, eng.student, fault)
            answer == IF fault = "upstream" THEN "failed"
                      ELSE IF upstream[pid] = "absent" THEN "empty" ELSE "rows"
            ret(found, err, calls, ans, save, committed) ==
                [pc |-> "returned", pid |-> pid, found |-> found, err |-> err,
                 calls |-> calls, answer |-> ans, before |-> local,
                 save |-> save, committed |-> committed]
        IN  IF fault = "begin"
            THEN fs' = ret(FALSE, PlainErr("sql"), 0, "none", Nil, FALSE) /\ UNCHANGED local
            ELSE IF ErrorCode(loc.err) = ""
            THEN fs' = ret(TRUE, Nil, 0, "none", Nil, FALSE) /\ UNCHANGED local
            ELSE IF ErrorCode(loc.err) # ENOTFOUND
            THEN fs' = ret(FALSE, loc.err, 0, "none", Nil, FALSE) /\ UNCHANGED local
            ELSE IF eng.err # Nil
            THEN fs' = ret(FALSE, eng.err, 1, answer, Nil, FALSE) /\ UNCHANGED local
            ELSE IF ~fallback
            THEN fs' = ret(TRUE, Nil, 1, answer, Nil, FALSE) /\ UNCHANGED local
            ELSE IF saved.err # Nil
            THEN fs' = ret(TRUE, Nil, 1, answer, saved.err, FALSE) /\ UNCHANGED local
            ELSE fs' = ret(TRUE, Nil, 1, answer, Nil, TRUE) /\ local' = saved.tx
    /\ UNCHANGED <<upstream, marks, marks0, upMarks, fallback, fm, rm, pr, ctxDone, rs,
                   queueVars, serverVars, handlerVars>>

\* ---------------------------------------- the current_year column
\* sql.NullInt64 and what its Value() binds to a statement: NULL when it is
\* not valid, its Int64 otherwise.
NullInt64(int64, valid) == [Int64 |-> int64, Valid |-> valid]
SqlNull == [null |-> TRUE, int |-> 0]
SqlInt(n) == [null |-> FALSE, int |-> n]
Value(n) == IF n.Valid THEN SqlInt(n.Int64) ELSE SqlNull

\* The years engage reports for a pupil that attends.
Years == {7, 12}
\* findStudentByPIDEngage: CurrentYear is read from the render for a student
\* that attends and stays the zero value otherwise.
studCurrentYear(attends, year) == IF attends THEN year ELSE 0
EngageStudent(attends, year) ==
    [AttendsSchool |-> attends, CurrentYear |-> studCurrentYear(attends, year)]

\* Fault: the year bound whether or not the student attends.
currYearValid(student) == NullInt64(student.CurrentYear, TRUE)
\* currYear := sql.NullInt64{Int64: int64(CurrentYear), Valid: AttendsSchool},
\* the same expression in createStudent and in updateStudent.
currYear(student) == NullInt64(student.CurrentYear, student.AttendsSchool)

\* The columns current_year and attends_school of a row of students.
NoRow == [present |-> FALSE, attends |-> FALSE, current_year |-> SqlNull]
YearRow(attends, year) == [present |-> TRUE, attends |-> attends, current_year |-> year]
\* The values createStudent and updateStudent bind for a student.
Bound(student) == YearRow(student.AttendsSchool, Value(currYear(student)))
\* The rows a table holds: a year for a student that attends, NULL otherwise.
YearRows == {NoRow, YearRow(FALSE, SqlNull)} \cup {YearRow(TRUE, SqlInt(y)) : y \in Years}

\* createStudent(ctx, tx, student) for a student of engage that is not in the
\* table: the values are bound and the INSERT is rejected for the comma that
\* ends its column list, so the table stays as it is.
\* args: the values bound to the statement. year: what engage reports.
CreateStudentYear ==
    /\ ~fatal
    /\ \E pid \in PIDs, attends \in BOOLEAN, year \in Years :
        LET student == EngageStudent(attends, year) IN
        /\ ~pr.students[pid].present
        /\ pr' = [pc |-> "created", students |-> pr.students, pid |-> pid,
                  attends |-> attends, year |-> year, args |-> Bound(student),
                  err |-> PlainErr("sql: syntax error")]
    /\ UNCHANGED <<storeVars, marks, marks0, upMarks, fallback, fm, rm, fs, ctxDone, rs,
                   queueVars, serverVars, handlerVars>>

\* updateStudent(ctx, tx, prev, next) for a student of the table, next being
\* the student of engage: the UPDATE sets current_year and attends_school of
\* the row, unless an earlier statement or the UPDATE itself failed.
UpdateStudentYear ==
    /\ ~fatal
    /\ \E pid \in PIDs, attends \in BOOLEAN, year \in Years, fault \in {"none", "write"} :
        LET next == EngageStudent(attends, year) IN
        /\ pr.students[pid].present
        /\ pr' = [pc |-> "updated", pid |-> pid, attends |-> attends, year |-> year,
                  args |-> Bound(next),
                  students |-> IF fault = "write" THEN pr.students
                               ELSE [pr.students EXCEPT ![pid] = Bound(next)],
                  err |-> IF fault = "write" THEN PlainErr("sql") ELSE Nil]
    /\ UNCHANGED <<storeVars, marks, marks0, upMarks, fallback, fm, rm, fs, ctxDone, rs,
                   queueVars, serverVars, handlerVars>>

\* Fault: what the transaction wrote stays in the table.
RolledBackNot(table, tx) == tx
\* The deferred tx.Rollback() of a transaction that was not committed: the
\* table is what it was before it, whatever the transaction wrote.
RolledBack(table, tx) == table

\* DeleteStudent(ctx, pid): deleteStudent in a transaction, committed when it
\* succeeded; a BeginTx that failed returns nil. The deferred tx.Rollback()
\* leaves the table as it was on every other return.
\* begun: BeginTx succeeded. committed: tx.Commit() was reached.
DeleteStudent(pid) ==
    /\ ~fatal
    /\ \E fault \in {"none", "begin", "write"} :
        LET del == deleteStudent(local, pid, fault)
            ret(err, begun, committed) ==
                [pc |-> "deleted", pid |-> pid, err |-> err, begun |-> begun,
                 committed |-> committed, before |-> local]
        IN  IF fault = "begin"
            THEN pr' = ret(Nil, FALSE, FALSE) /\ UNCHANGED local
            ELSE IF del.err # Nil
            THEN pr' = ret(del.err, TRUE, FALSE) /\ local' = RolledBack(local, del.tx)
            ELSE pr' = ret(Nil, TRUE, TRUE) /\ local' = del.tx
    /\ UNCHANGED <<upstream, marks, marks0, upMarks, fallback, fm, rm, fs, ctxDone, rs,
                   queueVars, serverVars, handlerVars>>

\* What a return of RefreshStudents leaves: the deferred tx.Rollback() has run.
\* No path of the function calls tx.Commit().
RsReturned(call, err) ==
    [call EXCEPT !.pc = "returned", !.err = err, !.tx = NoTx, !.i = 0, !.pid = call.start,
                 !.marks = NoTx, !.waited = 0]

\* RefreshStudents, entry: BeginTx and the loop's initialisation.
RsBegin(j) ==
    /\ ~fatal
    /\ rs[j].pc = "call"
    /\ \E fault \in {"none", "query"} :
        rs' = [rs EXCEPT ![j] =
                IF ctxDone[j] THEN RsReturned(@, CtxErr)
                ELSE IF fault = "query" THEN RsReturned(@, PlainErr("sql"))
                ELSE [@ EXCEPT !.pc = "loop", !.i = 0, !.pid = rs[j].start, !.tx = local,
                               !.before = local, !.marks = marks]]
    /\ UNCHANGED <<storeVars, markVars, ctxDone, queueVars, serverVars, handlerVars>>

\* RefreshStudents, i < refresh.N: one student reconciled, then PIDCount++.
RsIterate(j) ==
    /\ ~fatal
    /\ rs[j].pc = "loop"
    /\ rs[j].i < rs[j].n
    /\ \E fault \in Faults :
        LET r == RefreshOne(rs[j].tx, ctxDone[j], rs[j].pid, rs[j].purge, fault) IN
        /\ rs' = [rs EXCEPT ![j] =
                IF r.err # Nil THEN RsReturned(@, r.err)
                ELSE [@ EXCEPT !.pc = "checkpoint", !.tx = r.tx, !.pid = rs[j].pid + 1,
                               !.writes = rs[j].writes + r.wrote,
                               !.marks = Cascade(r.tx, rs[j].marks), !.waited = 0]]
        /\ local' = IF r.err # Nil THEN RolledBack(local, rs[j].tx) ELSE local
        /\ marks' = IF r.err # Nil THEN RolledBack(marks, rs[j].marks) ELSE marks
    /\ UNCHANGED <<upstream, marks0, upMarks, fallback, fm, rm, fs, pr, ctxDone, queueVars,
                   serverVars, handlerVars>>

\* Fault: a timer that has fired as soon as it is made.
TimerFiredAtOnce(waited) == TRUE
\* time.After(engage.RequestTimeout) has fired once that long has been waited.
TimerFired(waited) == waited >= RequestTimeout

\* A second passes while RefreshStudents waits in its select.
RsTick(j) ==
    /\ ~fatal
    /\ rs[j].pc = "checkpoint"
    /\ ~TimerFired(rs[j].waited)
    /\ rs' = [rs EXCEPT ![j].waited = rs[j].waited + 1]
    /\ UNCHANGED <<storeVars, markVars, ctxDone, queueVars, serverVars, handlerVars>>

\* RefreshStudents, the select after each student: the context's Done wins
\* over the pacing timer whenever the context is cancelled by then.
RsCheckpoint(j) ==
    /\ ~fatal
    /\ rs[j].pc = "checkpoint"
    /\ ctxDone[j] \/ TimerFired(rs[j].waited)
    /\ rs' = [rs EXCEPT ![j] =
                IF ctxDone[j] THEN RsReturned(@, WrapRefresh(CtxErr))
                ELSE [@ EXCEPT !.pc = "loop", !.i = rs[j].i + 1, !.waited = 0]]
    /\ local' = IF ctxDone[j] THEN RolledBack(local, rs[j].tx) ELSE local
    /\ marks' = IF ctxDone[j] THEN RolledBack(marks, rs[j].marks) ELSE marks
    /\ UNCHANGED <<upstream, marks0, upMarks, fallback, fm, rm, fs, pr, ctxDone, queueVars,
                   serverVars, handlerVars>>

\* RefreshStudents, i = refresh.N: return nil.
RsExit(j) ==
    /\ ~fatal
    /\ rs[j].pc = "loop"
    /\ rs[j].i >= rs[j].n
    /\ rs' = [rs EXCEPT ![j] = RsReturned(@, Nil)]
    /\ local' = RolledBack(local, rs[j].tx)
    /\ marks' = RolledBack(marks, rs[j].marks)
    /\ UNCHANGED <<upstream, marks0, upMarks, fallback, fm, rm, fs, pr, ctxDone, queueVars,
                   serverVars, handlerVars>>

\* The caller of a direct call cancels the context it passed.
CtxCancel(j) ==
    /\ ~fatal
    /\ rs[j].pc \notin {"idle", "returned"}
    /\ ~ctxDone[j]
    /\ ctxDone' = [ctxDone EXCEPT ![j] = TRUE]
    /\ UNCHANGED <<storeVars, markVars, rs, queueVars, serverVars, handlerVars>>

\* ---------------------------------------------------- sqlite mark service
\* The percentages the marks table accepts (its CHECK constraint).
MinPct == 0
MaxPct == 100
\* Percentages a marksheet carries: one the table accepts, one it does not.
Pcts == {MaxPct \div 2, MaxPct + 1}
Subjects == {"A", "B"}
\* A full period has its year, term and importance; the period without a term
\* is not full and stands for every period of the year.
Periods == 1 .. MaxPeriods
AllPeriods == 0
Full(period) == period # AllPeriods
\* The pupil the marks belong to.
MarkPID == FirstPID + 2

Mark(pid, period, subject, pct) ==
    [pid |-> pid, period |-> period, subject |-> subject, pct |-> pct]
\* One marksheet entry: what GetMarksFromRender yields for it.
Entries == [subject : Subjects, pct : Pcts]
Sheets == UNION {[1 .. k -> Entries] : k \in 0 .. MaxUp}

\* A call that has not happened.
\* fetch: the error GetMarksheetRender returned to the call, Nil when it
\* returned none or was not called; query: the error the query of the marks
\* table returned; committed: the call ended with tx.Commit().
IdleFind == [pc |-> "idle", pid |-> FirstPID, period |-> AllPeriods, result |-> <<>>,
             err |-> Nil, calls |-> 0, before |-> <<>>, fetch |-> Nil, query |-> Nil,
             committed |-> FALSE]

\* A RefreshMarks call that has not started.
\* periods: the periods still to refresh; done: ctx is cancelled; fetch: the
\* error GetMarksheetRender returned for the period being diffed.
IdleRm == [pc |-> "idle", pid |-> FirstPID, from |-> 1, to |-> 1, periods |-> <<>>,
           tx |-> NoTx, err |-> Nil, before |-> NoTx, done |-> FALSE, waited |-> 0,
           fetch |-> Nil]

\* A FindStudentByPID call that has not happened.
\* answer: what engage answered, "none" when it was not asked.
\* save: the error of createStudent, nil when it was not called or succeeded.
\* committed: tx.Commit() was reached.
IdleFs == [pc |-> "idle", pid |-> FirstPID, found |-> FALSE, err |-> Nil, calls |-> 0,
           answer |-> "none", before |-> NoTx, save |-> Nil, committed |-> FALSE]
\* No render parsed.
IdleParse == [pc |-> "idle"]

MarksIdle ==
    /\ marks = <<>>
    /\ marks0 = <<>>
    /\ upMarks = [p \in Periods |-> <<>>]
    /\ fallback = FALSE
    /\ fm = IdleFind
    /\ rm = IdleRm
    /\ fs = IdleFs
    /\ pr = IdleParse

MarkFaults == {"none", "begin", "period", "term", "query", "upstream"}

\* findMarks with PID and Periods set: the rows of the pupil in those periods.
\* (findMarks has no body in the source; a query error is the "query" fault.)
findMarks(tx, pid, periods) ==
    SelectSeq(tx, LAMBDA m : m.pid = pid /\ m.period \in periods)

findMarksByFullPeriod(tx, pid, period, fault) ==
    IF fault = "query" THEN [marks |-> <<>>, err |-> PlainErr("sql")]
    ELSE [marks |-> findMarks(tx, pid, {period}), err |-> Nil]

\* Client.GetMarksheetRender as the mark service sees it: the error of the
\* request, Nil when a marksheet comes back. A status other than 200 is
\* decoded into an error of that status; a pupil engage does not know is
\* answered with the page of 9200 bytes.
GetMarksheetRender(pid, fault) ==
    IF fault = "upstream" THEN Errorf(EINTERNAL, "engage: error body empty")
    ELSE IF pid # MarkPID THEN Errorf(ENOTFOUND, "couldnt find pupil")
    ELSE Nil

\* findMarksByFullPeriodEngage: only PeriodToEngageTerm's error is returned.
\* The error of GetMarksheetRender is overwritten by that of
\* GetMarksFromRender, which parses the nil buffer into no marks, and the
\* return statement is "return marks, nil".
\* The error of GetMarksheetRender is overwritten by that of
\* GetMarksFromRender, which is dropped: a failed fetch yields no marks and nil.
\* calls: the requests sent to the engage client.
findMarksByFullPeriodEngage(pid, period, fault) ==
    IF fault = "term"
    THEN [marks |-> <<>>, err |-> PlainErr("period"), calls |-> 0, fetch |-> Nil]
    ELSE IF GetMarksheetRender(pid, fault) # Nil
    THEN [marks |-> <<>>, err |-> Nil, calls |-> 1,
          fetch |-> GetMarksheetRender(pid, fault)]
    ELSE [marks |-> [k \in 1 .. Len(upMarks[period]) |->
                        Mark(pid, period, upMarks[period][k].subject,
                             upMarks[period][k].pct)],
          err |-> Nil, calls |-> 1, fetch |-> Nil]

\* Mark.Validate: the percentage is within the table's range.
Validate(mark) ==
    IF mark.pct < MinPct \/ mark.pct > MaxPct
    THEN Errorf(EINVALID, "percentage out of range")
    ELSE Nil

\* Fault: an INSERT the database accepts, the valid mark added to the table.
createMarkInserted(tx, mark, fault) ==
    IF mark.pct < MinPct \/ mark.pct > MaxPct
    THEN [tx |-> tx, err |-> Errorf(EINVALID, "percentage out of range")]
    ELSE [tx |-> Append(tx, mark), err |-> Nil]
\* Fault: the mark inserted as it is, without Validate.
createMarkUnchecked(tx, mark, fault) == [tx |-> Append(tx, mark), err |-> Nil]
\* createMark: a valid mark reaches the INSERT, whose column list ends with a
\* comma before the closing parenthesis: SQLite rejects the statement, nothing
\* is written and its error is returned.
createMark(tx, mark, fault) ==
    IF Validate(mark) # Nil THEN [tx |-> tx, err |-> Validate(mark)]
    ELSE [tx |-> tx, err |-> PlainErr("sql")]

\* Fault: the marks of engage written over those of the table.
createDiffReplace(tx, localMarks, engage, fault) == [tx |-> engage, err |-> Nil]
\* createDiff: createMark for each engage mark, in order, whose subject name
\* no mark of local carries; the first error ends it.
RECURSIVE createDiffFrom(_, _, _, _, _)
createDiffFrom(tx, localMarks, engage, k, fault) ==
    IF k > Len(engage) THEN [tx |-> tx, err |-> Nil]
    ELSE IF \E i \in 1 .. Len(localMarks) : localMarks[i].subject = engage[k].subject
    THEN createDiffFrom(tx, localMarks, engage, k + 1, fault)
    ELSE LET c == createMark(tx, engage[k], fault) IN
         IF c.err # Nil THEN [tx |-> c.tx, err |-> c.err]
         ELSE createDiffFrom(c.tx, localMarks, engage, k + 1, fault)

createDiff(tx, localMarks, engage, fault) == createDiffFrom(tx, localMarks, engage, 1, fault)

\* The marksheets createDiff is given on its own: up to MaxSheet marks, in
\* which a subject may come twice.
MaxSheet == 2
LongSheets == UNION {[1 .. k -> Entries] : k \in 0 .. MaxSheet}

\* createDiff(ctx, tx, local, engage) in a transaction of its own, as
\* FindMarksByPeriod and RefreshMarks call it: local is what findMarks gives
\* for the pupil and the period, and the transaction is committed when
\* createDiff returns nil.
CreateDiffApply ==
    /\ ~fatal
    /\ \E period \in Periods, sheet \in LongSheets :
        LET engage == [k \in 1 .. Len(sheet) |->
                        Mark(MarkPID, period, sheet[k].subject, sheet[k].pct)]
            loc == findMarks(marks, MarkPID, {period})
            diff == createDiff(marks, loc, engage, "none")
        IN  /\ pr' = [pc |-> "diffed", period |-> period, engage |-> engage,
                      err |-> diff.err, tx |-> diff.tx, before |-> marks]
            /\ marks' = IF diff.err = Nil THEN diff.tx ELSE RolledBack(marks, diff.tx)
    /\ UNCHANGED <<storeVars, marks0, upMarks, fallback, fm, rm, fs, ctxDone, rs,
                   queueVars, serverVars, handlerVars>>

\* Fault: the engage client is consulted whatever s.fallback.
UseFallbackAlways(enabled) == TRUE
\* s.fallback as findMarksByFullPeriodFallback reads it.
UseFallback(enabled) == enabled

\* findMarksByFullPeriodFallback: the local marks of the period; with fallback
\* the engage marks are diffed into the table and are what is returned.
findMarksByFullPeriodFallback(tx, pid, period, fault) ==
    LET loc == findMarksByFullPeriod(tx, pid, period, fault)
        eng == findMarksByFullPeriodEngage(pid, period, fault)
        diff == createDiff(tx, loc.marks, eng.marks, fault)
    IN  IF loc.err # Nil
        THEN [tx |-> tx, marks |-> <<>>, err |-> loc.err, calls |-> 0, fetch |-> Nil]
        ELSE IF ~UseFallback(fallback)
        THEN [tx |-> tx, marks |-> loc.marks, err |-> Nil, calls |-> 0, fetch |-> Nil]
        ELSE IF eng.err # Nil
        THEN [tx |-> tx, marks |-> <<>>, err |-> eng.err, calls |-> eng.calls,
              fetch |-> eng.fetch]
        ELSE IF diff.err # Nil
        THEN [tx |-> diff.tx, marks |-> <<>>, err |-> diff.err, calls |-> eng.calls,
              fetch |-> eng.fetch]
        ELSE [tx |-> diff.tx, marks |-> eng.marks, err |-> Nil, calls |-> eng.calls,
              fetch |-> eng.fetch]

\* The body of FindMarksByPeriod between BeginTx and the return.
\* In the branch of a period that is not full, err is declared anew by
\* "periods, err :=": the error of findMarks is assigned to that inner err and
\* is not seen by the check after the branch.
FindMarksBody(tx, students, pid, period, fault) ==
    LET fb == findMarksByFullPeriodFallback(tx, pid, period, fault)
        found == IF Full(period) THEN fb
                 ELSE IF fault = "query"
                 THEN [tx |-> tx, marks |-> <<>>, err |-> Nil, calls |-> 0, fetch |-> Nil]
                 ELSE [tx |-> tx, marks |-> findMarks(tx, pid, Periods), err |-> Nil,
                       calls |-> 0, fetch |-> Nil]
        student == findStudentByPID(students, pid, "none")
    IN  IF fault = "period"
        THEN [tx |-> tx, marks |-> <<>>, err |-> PlainErr("period"), calls |-> 0,
              fetch |-> Nil]
        ELSE IF ~Full(period) /\ fault = "term"
        THEN [tx |-> tx, marks |-> <<>>, err |-> PlainErr("period"), calls |-> 0,
              fetch |-> Nil]
        ELSE IF found.err # Nil THEN [found EXCEPT !.marks = <<>>]
        ELSE IF student.err # Nil
        THEN [tx |-> found.tx, marks |-> <<>>, err |-> student.err, calls |-> found.calls,
              fetch |-> found.fetch]
        ELSE found

\* FindMarksByPeriod(ctx, pid, period): the transaction is committed on the
\* return that carries the marks and rolled back on every other.
FindMarksByPeriod(pid, period) ==
    /\ ~fatal
    /\ \E fault \in MarkFaults :
        LET r == FindMarksBody(marks, local, pid, period, fault) IN
        IF fault = "begin"
        THEN /\ fm' = [pc |-> "returned", pid |-> pid, period |-> period,
                       result |-> <<>>, err |-> PlainErr("sql"), calls |-> 0,
                       before |-> marks, fetch |-> Nil, query |-> Nil,
                       committed |-> FALSE]
             /\ UNCHANGED marks
        ELSE /\ fm' = [pc |-> "returned", pid |-> pid, period |-> period,
                       result |-> r.marks, err |-> r.err, calls |-> r.calls,
                       before |-> marks, fetch |-> r.fetch,
                       query |-> IF fault = "query" THEN PlainErr("sql") ELSE Nil,
                       committed |-> r.err = Nil]
             /\ marks' = IF r.err = Nil THEN r.tx ELSE RolledBack(marks, r.tx)
    /\ UNCHANGED <<storeVars, marks0, upMarks, fallback, rm, fs, pr, ctxDone, rs, queueVars,
                   serverVars, handlerVars>>

\* PeriodRange of the period collaborator: the full periods from..to in order.
PeriodRange(from, to) == [k \in 1 .. (to - from + 1) |-> from + k - 1]

\* What a return of RefreshMarks leaves: the deferred tx.Rollback() has run.
\* No path of the function calls tx.Commit().
RmReturned(call, err) ==
    [call EXCEPT !.pc = "returned", !.err = err, !.tx = NoTx, !.periods = <<>>,
                 !.waited = 0, !.fetch = Nil]

\* RefreshMarks, entry: BeginTx, the student's lookup and PeriodRange.
RmBegin ==
    /\ ~fatal
    /\ rm.pc = "call"
    /\ \E fault \in {"none", "begin", "term"} :
        LET student == findStudentByPID(local, rm.pid, "none") IN
        rm' = IF rm.done THEN RmReturned(rm, CtxErr)
              ELSE IF fault = "begin" THEN RmReturned(rm, PlainErr("sql"))
              ELSE IF student.err # Nil THEN RmReturned(rm, student.err)
              ELSE IF fault = "term" THEN RmReturned(rm, PlainErr("period"))
              ELSE [rm EXCEPT !.pc = "loop", !.periods = PeriodRange(rm.from, rm.to),
                              !.tx = marks, !.before = marks]
    /\ UNCHANGED <<storeVars, marks, marks0, upMarks, fallback, fm, fs, pr, ctxDone, rs,
                   queueVars, serverVars, handlerVars>>

\* RefreshMarks, len(periods) > 0: the marks of periods[0] are fetched from the
\* table and from engage and diffed. A cancelled context fails the table's
\* query.
RmIterate ==
    /\ ~fatal
    /\ rm.pc = "loop"
    /\ rm.periods # <<>>
    /\ \E fault \in {"none", "term", "query", "upstream"} :
        LET period == Head(rm.periods)
            loc == findMarksByFullPeriod(rm.tx, rm.pid, period, fault)
            eng == findMarksByFullPeriodEngage(rm.pid, period, fault)
            diff == createDiff(rm.tx, loc.marks, eng.marks, fault)
            err == IF rm.done THEN CtxErr
                   ELSE IF loc.err # Nil THEN loc.err
                   ELSE IF eng.err # Nil THEN eng.err
                   ELSE diff.err
        IN  /\ rm' = IF err # Nil THEN RmReturned(rm, err)
                     ELSE [rm EXCEPT !.pc = "checkpoint", !.tx = diff.tx, !.waited = 0,
                                     !.fetch = eng.fetch]
            /\ marks' = IF err # Nil THEN RolledBack(marks, rm.tx) ELSE marks
    /\ UNCHANGED <<storeVars, marks0, upMarks, fallback, fm, fs, pr, ctxDone, rs,
                   queueVars, serverVars, handlerVars>>

\* A second passes while RefreshMarks waits in its select.
RmTick ==
    /\ ~fatal
    /\ rm.pc = "checkpoint"
    /\ ~TimerFired(rm.waited)
    /\ rm' = [rm EXCEPT !.waited = rm.waited + 1]
    /\ UNCHANGED <<storeVars, marks, marks0, upMarks, fallback, fm, fs, pr, ctxDone, rs,
                   queueVars, serverVars, handlerVars>>

\* RefreshMarks, the select after each period, then periods = periods[1:].
RmCheckpoint ==
    /\ ~fatal
    /\ rm.pc = "checkpoint"
    /\ rm.done \/ TimerFired(rm.waited)
    /\ rm' = IF rm.done THEN RmReturned(rm, CtxErr)
             ELSE [rm EXCEPT !.pc = "loop", !.periods = Tail(rm.periods), !.waited = 0,
                             !.fetch = Nil]
    /\ marks' = IF rm.done THEN RolledBack(marks, rm.tx) ELSE marks
    /\ UNCHANGED <<storeVars, marks0, upMarks, fallback, fm, fs, pr, ctxDone, rs,
                   queueVars, serverVars, handlerVars>>

\* RefreshMarks, len(periods) = 0: return nil.
RmExit ==
    /\ ~fatal
    /\ rm.pc = "loop"
    /\ rm.periods = <<>>
    /\ rm' = RmReturned(rm, Nil)
    /\ marks' = RolledBack(marks, rm.tx)
    /\ UNCHANGED <<storeVars, marks0, upMarks, fallback, fm, fs, pr, ctxDone, rs,
                   queueVars, serverVars, handlerVars>>

\* The caller of RefreshMarks cancels the context it passed.
RmCancel ==
    /\ ~fatal
    /\ rm.pc \notin {"idle", "returned"}
    /\ ~rm.done
    /\ rm' = [rm EXCEPT !.done = TRUE]
    /\ UNCHANGED <<storeVars, marks, marks0, upMarks, fallback, fm, fs, pr, ctxDone, rs,
                   queueVars, serverVars, handlerVars>>

\* ------------------------------------------------------------ engage.go
\* A render is a sequence of bytes, each written as a string of one character.
BackSlash == "\\"
Tab == "\t"
Digits == <<"0", "1", "2", "3", "4", "5", "6", "7", "8", "9">>
IsDigit(c) == \E d \in 1 .. Len(Digits) : Digits[d] = c
DigitVal(c) == (CHOOSE d \in 1 .. Len(Digits) : Digits[d] = c) - 1

\* buf[lo:hi], bytes.IndexByte and bytes.LastIndexByte, positions from 0.
Slice(buf, lo, hi) == SubSeq(buf, lo + 1, hi)
IndexByte(buf, c) ==
    IF \E i \in 1 .. Len(buf) : buf[i] = c
    THEN (CHOOSE i \in 1 .. Len(buf) : buf[i] = c /\ \A k \in 1 .. (i - 1) : buf[k] # c) - 1
    ELSE -1
LastIndexByte(buf, c) ==
    IF \E i \in 1 .. Len(buf) : buf[i] = c
    THEN (CHOOSE i \in 1 .. Len(buf) :
            buf[i] = c /\ \A k \in (i + 1) .. Len(buf) : buf[k] # c) - 1
    ELSE -1

\* The digits of buf from position k (from 1) on.
RECURSIVE DigitRun(_, _)
DigitRun(buf, k) ==
    IF k <= Len(buf) /\ IsDigit(buf[k]) THEN 1 + DigitRun(buf, k + 1) ELSE 0

\* percentageRegexp.FindIndex: the leftmost match of a backslash, the letter t
\* and one or more digits (the pattern is the raw string \\t\d+), as
\* <<start, end>>, or <<>> for nil.
PercentageMatches(buf) ==
    {i \in 1 .. Len(buf) :
        /\ i + 2 <= Len(buf)
        /\ buf[i] = BackSlash /\ buf[i + 1] = "t" /\ IsDigit(buf[i + 2])}
percentageFindIndex(buf) ==
    IF PercentageMatches(buf) = {} THEN <<>>
    ELSE LET i == CHOOSE m \in PercentageMatches(buf) :
                    \A o \in PercentageMatches(buf) : m <= o
         IN  <<i - 1, i + 1 + DigitRun(buf, i + 2)>>

\* strings.TrimPrefix.
TrimPrefix(str, prefix) ==
    IF Len(str) >= Len(prefix) /\ SubSeq(str, 1, Len(prefix)) = prefix
    THEN SubSeq(str, Len(prefix) + 1, Len(str))
    ELSE str

\* strconv.Atoi of a string without sign: its value, or an error.
RECURSIVE DecimalValue(_)
DecimalValue(str) ==
    IF str = <<>> THEN 0
    ELSE 10 * DecimalValue(SubSeq(str, 1, Len(str) - 1)) + DigitVal(str[Len(str)])
Atoi(str) ==
    IF str # <<>> /\ \A i \in 1 .. Len(str) : IsDigit(str[i])
    THEN [val |-> DecimalValue(str), err |-> Nil]
    ELSE [val |-> 0, err |-> PlainErr("strconv.Atoi: invalid syntax")]

\* getSubjectName: y is a position in buf[x+2:] and is used as one in buf; a
\* slice whose low bound is above its high bound panics.
getSubjectName(buf) ==
    LET x == IndexByte(buf, ",")
        y == IndexByte(Slice(buf, x + 2, Len(buf)), ",")
    IN  IF x = -1 THEN [panic |-> FALSE, name |-> <<>>, rem |-> -1]
        ELSE IF x + 2 > Len(buf) THEN [panic |-> TRUE, name |-> <<>>, rem |-> -1]
        ELSE IF y = -1 THEN [panic |-> FALSE, name |-> <<>>, rem |-> -1]
        ELSE IF x + 2 > y THEN [panic |-> TRUE, name |-> <<>>, rem |-> -1]
        ELSE [panic |-> FALSE, name |-> Slice(buf, x + 2, y), rem |-> y]

\* getTeacherName: buf[y+2 : y] has its low bound above its high bound.
getTeacherName(buf) ==
    LET x == IndexByte(buf, "<")
        y == LastIndexByte(Slice(buf, 0, x + 1), ",")
    IN  IF x = -1 THEN [panic |-> FALSE, name |-> <<>>, rem |-> -1]
        ELSE IF y = -1 THEN [panic |-> FALSE, name |-> <<>>, rem |-> -1]
        ELSE [panic |-> TRUE, name |-> <<>>, rem |-> -1]

NoMark == [pct |-> -1, subject |-> <<>>, teacher |-> <<>>]
Parsed(kind, mark, n, err) == [kind |-> kind, mark |-> mark, n |-> n, err |-> err]

\* GetMarkFromRender: the mark, the offset n and the error, or a panic.
\* TrimPrefix is given the tab character, and the match begins with a backslash.
GetMarkFromRender(renderBuf) ==
    LET res == percentageFindIndex(renderBuf)
        raw == Slice(renderBuf, res[1], res[2])
        percentage == Atoi(TrimPrefix(raw, <<Tab>>))
        n1 == res[2]
        subject == getSubjectName(Slice(renderBuf, n1, Len(renderBuf)))
        n2 == n1 + subject.rem
        teacher == getTeacherName(Slice(renderBuf, n2, Len(renderBuf)))
        n3 == n2 + teacher.rem
    IN  IF res = <<>>
        THEN Parsed("err", NoMark, -1,
                    Errorf(ENOTFOUND, "couldnt match any percentage from current render"))
        ELSE IF percentage.err # Nil THEN Parsed("err", NoMark, -1, percentage.err)
        ELSE IF subject.panic THEN Parsed("panic", NoMark, -1, Nil)
        ELSE IF subject.rem = -1
        THEN Parsed("err", NoMark, -1, PlainErr("unexpected buffer index"))
        ELSE IF teacher.panic THEN Parsed("panic", NoMark, -1, Nil)
        ELSE IF teacher.rem = 1
        THEN Parsed("err", NoMark, -1, PlainErr("unexpected buffer index"))
        ELSE Parsed("ok", [pct |-> percentage.val, subject |-> subject.name,
                           teacher |-> teacher.name], n3, Nil)

\* A well-formed mark record of a render: the percentage after its marker,
\* then the subject and the teacher, each after ", ", up to the next tag.
\* The marker is the two bytes backslash, t or the tab byte.
Markers == {<<BackSlash, "t">>, <<Tab>>}
Numerals == {<<"5">>, <<"9">>, <<"5", "9">>, <<"1", "0", "0">>}
SubjectNames == {<<"M">>, <<"A", "r", "t">>}
TeacherNames == {<<"T">>, <<"K", "o">>}
Record(marker, numeral, subject, teacher) ==
    marker \o numeral \o <<",", " ">> \o subject \o <<",", " ">> \o teacher \o <<"<">>
RecordFields == [marker : Markers, numeral : Numerals, subject : SubjectNames,
                 teacher : TeacherNames]
Bytes(f) == Record(f.marker, f.numeral, f.subject, f.teacher)

\* GetMarkFromRender applied to two records one after the other, to the rest
\* from the offset it returned, and to the second record alone.
GetMarkFromRenderTwo ==
    /\ ~fatal
    /\ pr.pc = "input"
    /\ LET whole == GetMarkFromRender(Bytes(pr.first) \o Bytes(pr.second))
           buf == Bytes(pr.first) \o Bytes(pr.second)
       IN  pr' = [pc |-> "parsed", first |-> pr.first, second |-> pr.second,
                  whole |-> whole,
                  resumed |-> IF whole.kind = "ok" /\ whole.n \in 0 .. Len(buf)
                              THEN GetMarkFromRender(Slice(buf, whole.n, Len(buf)))
                              ELSE Parsed("panic", NoMark, -1, Nil),
                  alone |-> GetMarkFromRender(Bytes(pr.second))]
    /\ UNCHANGED <<storeVars, marks, marks0, upMarks, fallback, fm, rm, fs, ctxDone, rs,
                   queueVars, serverVars, handlerVars>>

\* A mark record of a render whose boundaries may be missing: "full" is the
\* well-formed record, "nocomma" has no comma at all, "onecomma" lacks the
\* comma that ends the subject, "noangle" lacks the tag after the teacher.
Shapes == {"full", "nocomma", "onecomma", "noangle"}
Shaped(f, shape) ==
    CASE shape = "full" -> Bytes(f)
      [] shape = "nocomma" ->
            f.marker \o f.numeral \o <<" ">> \o f.subject \o <<" ">> \o f.teacher \o <<"<">>
      [] shape = "onecomma" ->
            f.marker \o f.numeral \o <<",", " ">> \o f.subject \o <<" ">> \o f.teacher
                \o <<"<">>
      [] shape = "noangle" ->
            f.marker \o f.numeral \o <<",", " ">> \o f.subject \o <<",", " ">> \o f.teacher

\* GetMarkFromRender applied to one record.
GetMarkFromRenderOne ==
    /\ ~fatal
    /\ pr.pc = "render"
    /\ pr' = [pc |-> "marked", fields |-> pr.fields, shape |-> pr.shape,
              found |-> percentageFindIndex(Shaped(pr.fields, pr.shape)) # <<>>,
              res |-> GetMarkFromRender(Shaped(pr.fields, pr.shape))]
    /\ UNCHANGED <<storeVars, marks, marks0, upMarks, fallback, fm, rm, fs, ctxDone, rs,
                   queueVars, serverVars, handlerVars>>

\* strings.TrimLeft and strings.TrimRight: every leading (trailing) character
\* that is one of the characters of cutset is removed.
RECURSIVE TrimLeft(_, _)
TrimLeft(str, cutset) ==
    IF str # <<>> /\ (\E c \in 1 .. Len(cutset) : cutset[c] = str[1])
    THEN TrimLeft(Tail(str), cutset)
    ELSE str
RECURSIVE TrimRight(_, _)
TrimRight(str, cutset) ==
    IF str # <<>> /\ (\E c \in 1 .. Len(cutset) : cutset[c] = str[Len(str)])
    THEN TrimRight(SubSeq(str, 1, Len(str) - 1), cutset)
    ELSE str

\* nameRegexp.FindIndex: the leftmost <a> that a </a> follows, up to the first
\* such </a> (the group is not greedy), as <<start, end>>, or <<>> for nil.
OpenTag == <<"<", "a", ">">>
CloseTag == <<"<", "/", "a", ">">>
TagAt(buf, i, tag) == i + Len(tag) - 1 <= Len(buf) /\ SubSeq(buf, i, i + Len(tag) - 1) = tag
NameMatches(buf) ==
    {i \in 1 .. Len(buf) :
        TagAt(buf, i, OpenTag) /\ \E j \in (i + 3) .. Len(buf) : TagAt(buf, j, CloseTag)}
nameFindIndex(buf) ==
    IF NameMatches(buf) = {} THEN <<>>
    ELSE LET i == CHOOSE m \in NameMatches(buf) : \A o \in NameMatches(buf) : m <= o
             j == CHOOSE c \in (i + 3) .. Len(buf) :
                    /\ TagAt(buf, c, CloseTag)
                    /\ \A o \in (i + 3) .. (c - 1) : ~TagAt(buf, o, CloseTag)
         IN  <<i - 1, j + 3>>

\* The name NameFromRender makes of the match: TrimLeft with the cutset "<a>"
\* and TrimRight with the cutset "</a>".
NameOfMatch(match) == TrimRight(TrimLeft(match, OpenTag), CloseTag)

\* NameFromRender: the name, the offset after the match and the error.
NameFromRender(renderBuf) ==
    LET res == nameFindIndex(renderBuf) IN
    IF res = <<>>
    THEN [name |-> <<>>, n |-> -1,
          err |-> Errorf(ENOTFOUND, "couldnt match any name from current render")]
    ELSE [name |-> NameOfMatch(Slice(renderBuf, res[1], res[2])), n |-> res[2],
          err |-> Nil]

\* The renders NameFromRender is given: a name of up to MaxName characters,
\* inside the tags when span, after some or no text.
MaxName == 2
NameChars == {"a", "n", "<", ">", "/"}
Names == UNION {[1 .. k -> NameChars] : k \in 0 .. MaxName}
Leads == {<<>>, <<"x">>}
Page(lead, name, span) == IF span THEN lead \o OpenTag \o name \o CloseTag ELSE lead \o name

\* NameFromRender applied to a render.
NameFromRenderPage ==
    /\ ~fatal
    /\ pr.pc = "page"
    /\ pr' = [pc |-> "named", lead |-> pr.lead, name |-> pr.name, span |-> pr.span,
              res |-> NameFromRender(Page(pr.lead, pr.name, pr.span))]
    /\ UNCHANGED <<storeVars, marks, marks0, upMarks, fallback, fm, rm, fs, ctxDone, rs,
                   queueVars, serverVars, handlerVars>>

\* yearRegexp.FindAllIndex, its last match: the word Year, one character of
\* white space (\s) and one or more digits. Matches cannot overlap, so the last
\* is the one that starts last; <<start, end>>, or <<>> for nil.
YearWord == <<"Y", "e", "a", "r">>
WhiteSpace == {" ", "\t", "\n", "\f", "\r"}
YearMatches(buf) ==
    {i \in 1 .. Len(buf) :
        /\ TagAt(buf, i, YearWord)
        /\ i + Len(YearWord) + 1 <= Len(buf)
        /\ buf[i + Len(YearWord)] \in WhiteSpace
        /\ IsDigit(buf[i + Len(YearWord) + 1])}
yearFindLastIndex(buf) ==
    IF YearMatches(buf) = {} THEN <<>>
    ELSE LET i == CHOOSE m \in YearMatches(buf) : \A o \in YearMatches(buf) : m >= o
         IN  <<i - 1, i + Len(YearWord) + DigitRun(buf, i + Len(YearWord) + 1)>>

\* CurrentYearFromRender: the year, the offset after the last match and the
\* error. TrimLeft is given the cutset "Year ".
CurrentYearFromRender(renderBuf) ==
    LET res == yearFindLastIndex(renderBuf)
        out == TrimLeft(Slice(renderBuf, res[1], res[2]), YearWord \o <<" ">>)
        year == Atoi(out)
    IN  IF res = <<>>
        THEN [year |-> -1, n |-> -1,
              err |-> Errorf(ENOTFOUND, "couldnt match any year from current render")]
        ELSE IF year.err # Nil THEN [year |-> -1, n |-> -1, err |-> year.err]
        ELSE [year |-> year.val, n |-> res[2], err |-> Nil]

\* The renders CurrentYearFromRender is given: at most two year tokens, each
\* with a space or a tab between the word and the number.
NoToken == [sep |-> "", str |-> <<>>, val |-> -1]
YearNumbers == {[str |-> <<"3">>, val |-> 3], [str |-> <<"7">>, val |-> 7],
                [str |-> <<"1", "2">>, val |-> 12]}
YearTokens == {[sep |-> sep, str |-> y.str, val |-> y.val] : sep \in {" ", Tab},
                                                             y \in YearNumbers}
TokenBytes(t) == IF t = NoToken THEN <<>> ELSE YearWord \o <<t.sep>> \o t.str
YearPage(first, between, second) == TokenBytes(first) \o between \o TokenBytes(second)

\* CurrentYearFromRender applied to a render.
CurrentYearFromRenderPage ==
    /\ ~fatal
    /\ pr.pc = "years"
    /\ pr' = [pc |-> "yeared", first |-> pr.first, between |-> pr.between,
              second |-> pr.second,
              res |-> CurrentYearFromRender(YearPage(pr.first, pr.between, pr.second))]
    /\ UNCHANGED <<storeVars, marks, marks0, upMarks, fallback, fm, rm, fs, ctxDone, rs,
                   queueVars, serverVars, handlerVars>>

\* ------------------------------------------------------------ http.go
\* Fault: two codes of the map share a status.
codesShared ==
    (ECONFLICT :> 409) @@ (EINVALID :> 400) @@ (ENOTFOUND :> 404)
        @@ (ENOTIMPLEMENTED :> 501) @@ (EUNAUTHORIZED :> 400) @@ (EINTERNAL :> 500)
\* The codes map: the status of each error code.
codes ==
    (ECONFLICT :> 409) @@ (EINVALID :> 400) @@ (ENOTFOUND :> 404)
        @@ (ENOTIMPLEMENTED :> 501) @@ (EUNAUTHORIZED :> 401) @@ (EINTERNAL :> 500)

\* FromErrorCodeToStatus over the codes map: 500 for a code it does not hold.
FromErrorCodeToStatus(code) ==
    IF code \in DOMAIN codes THEN codes[code] ELSE 500

\* FromStatusToErrorCode: the codes its loop over the map can return for a
\* status. The order in which a map is ranged over is not fixed, so any code
\* of that status can be the first one met; EINTERNAL when there is none.
FromStatusToErrorCode(status) ==
    IF \E k \in DOMAIN codes : codes[k] = status
    THEN {k \in DOMAIN codes : codes[k] = status}
    ELSE {EINTERNAL}

\* decodeError of a response whose body is empty, its status mapped to kind.
decodeError(kind) == Errorf(kind, "engage: error body empty")

\* The codes and statuses the two mappings are applied to: the six codes of
\* the map, the code of no error and one the map does not hold; the six
\* statuses of the map and four others.
CodeInputs == DOMAIN codes \cup {"", "teapot"}
StatusInputs == {409, 400, 404, 501, 401, 500, 200, 403, 418, 502}

\* Both mappings applied: code to status and back, status to code and forth,
\* and decodeError of the status.
MapBothWays ==
    /\ ~fatal
    /\ pr.pc = "codes"
    /\ \E back \in FromStatusToErrorCode(FromErrorCodeToStatus(pr.code)),
          kind \in FromStatusToErrorCode(pr.status) :
        pr' = [pc |-> "mapped", code |-> pr.code, status |-> pr.status,
               toStatus |-> FromErrorCodeToStatus(pr.code), back |-> back,
               kind |-> kind, forth |-> FromErrorCodeToStatus(kind),
               decoded |-> decodeError(kind)]
    /\ UNCHANGED <<storeVars, marks, marks0, upMarks, fallback, fm, rm, fs, ctxDone, rs,
                   queueVars, serverVars, handlerVars>>

\* SendErr: the status written for err.
SendErr(err) == FromErrorCodeToStatus(ErrorCode(err))

\* SendErr: the errResponse written as the body.
errResponse(err) == [Status |-> SendErr(err), Trace |-> ErrorMessage(err)]

\* The errors SendErr is given: a *csb.Error of any code and message, or
\* another error.
Messages == {"transaction not found", "work queue closed", "couldnt find pupil",
             "percentage out of range", "engage: error body empty", "internal error",
             "not_found"}
SentErrors == {Errorf(code, msg) : code \in CodeInputs \ {""}, msg \in Messages}
                \cup {PlainErr(msg) : msg \in Messages}

\* SendErr applied to an error, with what ErrorCode and ErrorMessage return.
SendErrOf ==
    /\ ~fatal
    /\ pr.pc = "error"
    /\ pr' = [pc |-> "sent", err |-> pr.err, code |-> ErrorCode(pr.err),
              message |-> ErrorMessage(pr.err), resp |-> errResponse(pr.err)]
    /\ UNCHANGED <<storeVars, marks, marks0, upMarks, fallback, fm, rm, fs, ctxDone, rs,
                   queueVars, serverVars, handlerVars>>

\* ------------------------------------------------------- the work queue
Unlocked == <<>>
Terminal == {"Done", "Cancelled", "Failed"}
Last(seq) == seq[Len(seq)]
Known(id) == id \in Jobs /\ id < nextId
IsTerminal(id) == Known(id) /\ Last(events[id]) \in Terminal
JobIds == 1 .. (MaxPub + 1)

\* Publish: Internal on a closed queue, else the next id.
PublishResult ==
    IF qclosed THEN [id |-> 0, err |-> Errorf(EINTERNAL, "work queue closed")]
    ELSE [id |-> nextId, err |-> Nil]

\* Subscribe: Internal on a closed queue, NotFound for an id never published,
\* else a stream that starts at the job's current status.
SubscribeResult(id) ==
    IF qclosed THEN [from |-> 0, err |-> Errorf(EINTERNAL, "work queue closed")]
    ELSE IF ~Known(id) THEN [from |-> 0, err |-> Errorf(ENOTFOUND, "transaction not found")]
    ELSE [from |-> Len(events[id]), err |-> Nil]

\* The terminal status the queue reports for what the job's function returned.
TerminalStatus(err) ==
    IF err = Nil THEN "Done"
    ELSE IF err \in CancellationErrs THEN "Cancelled"
    ELSE "Failed"

\* The queue picks a published job up: Running, then the job's function.
WorkerStart(j) ==
    /\ ~fatal
    /\ Known(j)
    /\ rs[j].pc = "queued"
    /\ events' = [events EXCEPT ![j] = Append(@, "Running")]
    /\ rs' = [rs EXCEPT ![j].pc = "call"]
    /\ UNCHANGED <<storeVars, markVars, ctxDone, nextId, qclosed, published, serverVars, handlerVars>>

\* The job's function has returned: the terminal status, and the stream ends.
WorkerFinish(j) ==
    /\ ~fatal
    /\ Known(j)
    /\ rs[j].pc = "returned"
    /\ events' = [events EXCEPT ![j] = Append(@, TerminalStatus(rs[j].err))]
    /\ rs' = [rs EXCEPT ![j] = [IdleCall EXCEPT !.pc = "finished"]]
    /\ UNCHANGED <<storeVars, markVars, ctxDone, nextId, qclosed, published, serverVars, handlerVars>>

\* --------------------------------------- handleRefreshStudent, pushTransaction
\* Fault: the cancel func stored before Publish has set transaction.Id.
PushKeyUnset(p) == 0
\* The key pushTransaction stores the cancel func under: transaction.Id as
\* Publish set it.
PushKey(p) == pub[p].id

\* Decode the body, derive the context, Publish.
PubPublish(p) ==
    /\ ~fatal
    /\ pub[p].pc = "idle"
    /\ \E n \in 0 .. MaxJobN, purge \in {TRUE} :
        LET r == PublishResult IN
        IF r.err # Nil
        THEN /\ pub' = [pub EXCEPT ![p] = [@ EXCEPT !.pc = "done", !.resp = SendErr(r.err)]]
             /\ UNCHANGED <<rs, queueVars>>
        ELSE /\ pub' = [pub EXCEPT ![p] = [@ EXCEPT !.pc = "published", !.id = r.id]]
             /\ nextId' = nextId + 1
             /\ published' = Append(published, r.id)
             /\ events' = [events EXCEPT ![r.id] = <<"Queued">>]
             /\ rs' = [rs EXCEPT ![r.id] =
                        [IdleCall EXCEPT !.pc = "queued", !.n = n, !.purge = purge]]
             /\ UNCHANGED qclosed
    /\ UNCHANGED <<storeVars, markVars, ctxDone, serverVars, can, sub, cls>>

\* s.cancelTransactions[transaction.Id] = cancel, entered without the mutex.
\* An assignment to an entry of the nil map panics: net/http recovers the
\* panic, the handler is over without a response, and the request's context
\* ends, and with it the transaction's.
PubWriteBegin(p) ==
    /\ ~fatal
    /\ pub[p].pc = "published"
    /\ IF allocated
       THEN /\ pub' = [pub EXCEPT ![p].pc = "writing"]
            /\ UNCHANGED ctxDone
       ELSE /\ pub' = [pub EXCEPT ![p].pc = "done"]
            /\ ctxDone' = [ctxDone EXCEPT ![pub[p].id] = TRUE]
    /\ UNCHANGED <<storeVars, markVars, rs, queueVars, serverVars, can, sub, cls>>

\* The assignment takes effect.
PubWriteEnd(p) ==
    /\ ~fatal
    /\ pub[p].pc = "writing"
    /\ ct' = [k \in DOMAIN ct \cup {PushKey(p)} |->
                IF k = PushKey(p) THEN pub[p].id ELSE ct[k]]
    /\ pub' = [pub EXCEPT ![p].pc = "written"]
    /\ UNCHANGED <<storeVars, markVars, ctxDone, rs, queueVars, closed, allocated, mu, fatal,
                   can, sub, cls>>

\* WriteJSON and return: the request's context ends with the handler, and
\* the transaction's context is its child.
PubRespond(p) ==
    /\ ~fatal
    /\ pub[p].pc = "written"
    /\ pub' = [pub EXCEPT ![p] = [@ EXCEPT !.pc = "done", !.resp = 200]]
    /\ ctxDone' = [ctxDone EXCEPT ![pub[p].id] = TRUE]
    /\ UNCHANGED <<storeVars, markVars, rs, queueVars, serverVars, can, sub, cls>>

\* ------------------------------------------------ handleCancelTransaction
\* Parse the id, s.transactionMu.Lock().
CancelLock(c) ==
    /\ ~fatal
    /\ can[c].pc = "idle"
    /\ mu = Unlocked
    /\ \E id \in JobIds :
        can' = [can EXCEPT ![c] = [@ EXCEPT !.pc = "locked", !.id = id]]
    /\ mu' = <<"cancel", c>>
    /\ UNCHANGED <<storeVars, markVars, ctxDone, rs, queueVars, closed, allocated, ct, fatal, pub, sub, cls>>

\* cancel, ok := s.cancelTransactions[id]; not found: 404 and the deferred
\* Unlock; found: cancel().
CancelLookup(c) ==
    /\ ~fatal
    /\ can[c].pc = "locked"
    /\ IF can[c].id \in DOMAIN ct
       THEN /\ ctxDone' = [ctxDone EXCEPT ![ct[can[c].id]] = TRUE]
            /\ can' = [can EXCEPT ![c] =
                        [@ EXCEPT !.pc = "found", !.live = ~IsTerminal(can[c].id)]]
            /\ UNCHANGED mu
       ELSE /\ can' = [can EXCEPT ![c] =
                        [@ EXCEPT !.pc = "done",
                                  !.resp = SendErr(Errorf(ENOTFOUND, "transaction not found"))]]
            /\ mu' = Unlocked
            /\ UNCHANGED ctxDone
    /\ UNCHANGED <<storeVars, markVars, rs, queueVars, closed, allocated, ct, fatal, pub, sub, cls>>

\* Fault: the entry left in the map.
MapDeleteNothing(m, id) == m
\* delete(m, id)
MapDelete(m, id) == [k \in DOMAIN m \ {id} |-> m[k]]

\* delete(s.cancelTransactions, id), 204, the deferred Unlock.
CancelDelete(c) ==
    /\ ~fatal
    /\ can[c].pc = "found"
    /\ ct' = MapDelete(ct, can[c].id)
    /\ can' = [can EXCEPT ![c] = [@ EXCEPT !.pc = "done", !.resp = 204]]
    /\ mu' = Unlocked
    /\ UNCHANGED <<storeVars, markVars, ctxDone, rs, queueVars, closed, allocated, fatal,
                   pub, sub, cls>>

\* A map access that overlaps an unguarded assignment: one handler is inside
\* the assignment while another assigns, reads or deletes.
Writing(p) == pub[p].pc = "writing"
MapRace ==
    \E p \in 1 .. MaxPub :
        /\ Writing(p)
        /\ \/ \E q \in 1 .. MaxPub : q # p /\ Writing(q)
           \/ \E c \in 1 .. MaxCancel : can[c].pc \in {"locked", "found"}

\* The overlapping accesses are a data race. Either the runtime's check of
\* the map's write flag misses it, and the accesses take effect one after
\* the other as the other actions have it, or it throws: fatal error, the
\* process is gone.
MapThrow ==
    /\ ~fatal
    /\ MapRace
    /\ fatal' = TRUE
    /\ UNCHANGED <<storeVars, markVars, ctxDone, rs, queueVars, closed, allocated, ct, mu, handlerVars>>

\* ----------------------------------------------- handleTransactionUpdates
\* Everything the handler does on return after the upgrade: sub.Close(),
\* conn.Close().
SubReturn(h, how) == [h EXCEPT !.pc = "done", !.exit = how, !.open = FALSE]

\* Fault: the error of Subscribe ignored.
SubscribeFailedNever(r) == FALSE
\* if err != nil after Subscribe
SubscribeFailed(r) == r.err # Nil

\* Fault: the status written to the peer twice.
DeliverTwice(h, status) ==
    [h EXCEPT !.got = Append(Append(@, status), status), !.pos = h.pos + 1]
\* One status written to the peer.
Deliver(h, status) == [h EXCEPT !.got = Append(@, status), !.pos = h.pos + 1]

\* Parse the id, Subscribe, upgrade the connection.
SubSubscribe(s) ==
    /\ ~fatal
    /\ sub[s].pc = "idle"
    /\ \E id \in JobIds, upgraded \in BOOLEAN :
        LET r == SubscribeResult(id) IN
        sub' = [sub EXCEPT ![s] =
            IF SubscribeFailed(r)
            THEN [@ EXCEPT !.pc = "done", !.id = id, !.resp = SendErr(r.err), !.exit = "error"]
            ELSE IF ~upgraded
            THEN [@ EXCEPT !.pc = "done", !.id = id, !.open = TRUE, !.exit = "upgrade"]
            ELSE [@ EXCEPT !.pc = "streaming", !.id = id, !.open = TRUE, !.pos = r.from]]
    /\ UNCHANGED <<storeVars, markVars, ctxDone, rs, queueVars, serverVars, pub, can, cls>>

\* case status, ok := <-sub.C() with ok: marshal and write the status.
SubRecv(s) ==
    /\ ~fatal
    /\ sub[s].pc = "streaming"
    /\ Known(sub[s].id)
    /\ sub[s].pos <= Len(events[sub[s].id])
    /\ \E how \in {"ok", "marshal", "write"} :
        sub' = [sub EXCEPT ![s] =
            IF how = "ok"
            THEN Deliver(@, events[sub[s].id][sub[s].pos])
            ELSE SubReturn(@, how)]
    /\ UNCHANGED <<storeVars, markVars, ctxDone, rs, queueVars, serverVars, pub, can, cls>>

\* case status, ok := <-sub.C() with !ok: the queue closed the stream after
\* the terminal status.
SubClosed(s) ==
    /\ ~fatal
    /\ sub[s].pc = "streaming"
    /\ sub[s].pos > Len(events[sub[s].id])
    /\ IsTerminal(sub[s].id)
    /\ sub' = [sub EXCEPT ![s] = SubReturn(@, "closed")]
    /\ UNCHANGED <<storeVars, markVars, ctxDone, rs, queueVars, serverVars, pub, can, cls>>

\* case <-timer.C: the heartbeat ping.
SubPing(s) ==
    /\ ~fatal
    /\ sub[s].pc = "streaming"
    /\ \E ok \in BOOLEAN :
        sub' = [sub EXCEPT ![s] = IF ok THEN @ ELSE SubReturn(@, "ping")]
    /\ UNCHANGED <<storeVars, markVars, ctxDone, rs, queueVars, serverVars, pub, can, cls>>

\* handleRefreshUpdates: the same loop as handleTransactionUpdates with no
\* deferred sub.Close(). Its one call of sub.Close() is in the handler set
\* with conn.SetCloseHandler, which the connection runs when a read finds a
\* close frame; the handler never reads from the connection.
\* A return of handleRefreshUpdates: timer.Stop() and conn.Close() run, the
\* subscription is left as it is.
RefReturn(h, how) == [h EXCEPT !.pc = "done", !.exit = how]

\* handleRefreshUpdates: parse the id, Subscribe, upgrade the connection.
RefSubscribe(s) ==
    /\ ~fatal
    /\ sub[s].pc = "idle"
    /\ \E id \in JobIds, upgraded \in BOOLEAN :
        LET r == SubscribeResult(id) IN
        sub' = [sub EXCEPT ![s] =
            IF SubscribeFailed(r)
            THEN [@ EXCEPT !.pc = "done", !.id = id, !.resp = SendErr(r.err), !.exit = "error"]
            ELSE IF ~upgraded
            THEN [@ EXCEPT !.pc = "done", !.id = id, !.open = TRUE, !.exit = "upgrade"]
            ELSE [@ EXCEPT !.pc = "refresh", !.id = id, !.open = TRUE, !.pos = r.from]]
    /\ UNCHANGED <<storeVars, markVars, ctxDone, rs, queueVars, serverVars, pub, can, cls>>

\* handleRefreshUpdates, case status, ok := <-sub.C() with ok.
RefRecv(s) ==
    /\ ~fatal
    /\ sub[s].pc = "refresh"
    /\ Known(sub[s].id)
    /\ sub[s].pos <= Len(events[sub[s].id])
    /\ \E how \in {"ok", "marshal", "write"} :
        sub' = [sub EXCEPT ![s] =
            IF how = "ok"
            THEN Deliver(@, events[sub[s].id][sub[s].pos])
            ELSE RefReturn(@, how)]
    /\ UNCHANGED <<storeVars, markVars, ctxDone, rs, queueVars, serverVars, pub, can, cls>>

\* handleRefreshUpdates, case status, ok := <-sub.C() with !ok.
RefClosed(s) ==
    /\ ~fatal
    /\ sub[s].pc = "refresh"
    /\ sub[s].pos > Len(events[sub[s].id])
    /\ IsTerminal(sub[s].id)
    /\ sub' = [sub EXCEPT ![s] = RefReturn(@, "closed")]
    /\ UNCHANGED <<storeVars, markVars, ctxDone, rs, queueVars, serverVars, pub, can, cls>>

\* handleRefreshUpdates, case <-timer.C: the heartbeat ping.
RefPing(s) ==
    /\ ~fatal
    /\ sub[s].pc = "refresh"
    /\ \E ok \in BOOLEAN :
        sub' = [sub EXCEPT ![s] = IF ok THEN @ ELSE RefReturn(@, "ping")]
    /\ UNCHANGED <<storeVars, markVars, ctxDone, rs, queueVars, serverVars, pub, can, cls>>

\* ------------------------------------------------------------ Server.Close
\* Fault: Close without the closed flag.
AlreadyClosedNever == FALSE
\* closed.CompareAndSwap(false, true) fails: the server is closed already.
AlreadyClosed == closed

\* Server.Close up to closed.CompareAndSwap(false, true): no-op if already
\* closed.
ServerClose(k) ==
    /\ ~fatal
    /\ cls[k].pc = "idle"
    /\ IF AlreadyClosed
       THEN /\ cls' = [cls EXCEPT ![k] = [pc |-> "done", ret |-> Nil]]
            /\ UNCHANGED closed
       ELSE /\ cls' = [cls EXCEPT ![k].pc = "shutdown"]
            /\ closed' = TRUE
    /\ UNCHANGED <<storeVars, markVars, ctxDone, rs, queueVars, allocated, ct, mu, fatal, pub, can, sub>>

\* server.Shutdown(ctx) has returned: its error is Close's, else
\* WorkQueue.Close() is entered and the queue accepts nothing more.
ServerShutdown(k) ==
    /\ ~fatal
    /\ cls[k].pc = "shutdown"
    /\ \E shutdown \in {Nil, PlainErr("context deadline exceeded")} :
        IF shutdown # Nil
        THEN /\ cls' = [cls EXCEPT ![k] = [pc |-> "done", ret |-> shutdown]]
             /\ UNCHANGED qclosed
        ELSE /\ cls' = [cls EXCEPT ![k].pc = "draining"]
             /\ qclosed' = TRUE
    /\ UNCHANGED <<storeVars, markVars, ctxDone, rs, nextId, events, published, serverVars,
                   pub, can, sub>>

\* WorkQueue.Close returns once the jobs in flight have ended.
ServerCloseDrained(k) ==
    /\ ~fatal
    /\ cls[k].pc = "draining"
    /\ \A j \in Jobs : Known(j) => IsTerminal(j)
    /\ cls' = [cls EXCEPT ![k].pc = "done"]
    /\ UNCHANGED <<storeVars, markVars, ctxDone, rs, queueVars, serverVars, pub, can, sub>>

\* ------------------------------------------------------- the whole server
IdlePub == [pc |-> "idle", id |-> 0, resp |-> 0]
\* live: whether the job had not yet ended when the handler looked its id up.
IdleCan == [pc |-> "idle", id |-> 0, resp |-> 0, live |-> FALSE]
IdleSub == [pc |-> "idle", id |-> 0, resp |-> 0, pos |-> 0, got |-> <<>>,
            open |-> FALSE, exit |-> ""]
IdleCls == [pc |-> "idle", ret |-> Nil]

\* After NewServer and the injection of the services, over an upstream and a
\* local store that differ. NewServer leaves cancelTransactions nil; the
\* field is unexported, and a file of package http may allocate it before
\* the server listens: both servers are started.
Init ==
    /\ upstream = [pid \in PIDs |->
                    IF pid = FirstPID THEN "absent"
                    ELSE IF pid = FirstPID + 1 THEN "attending" ELSE "left"]
    /\ local = [pid \in PIDs |-> IF pid = FirstPID + 2 THEN Row(TRUE) ELSE Absent]
    /\ ctxDone = [j \in Jobs |-> FALSE]
    /\ rs = [j \in Jobs |-> IdleCall]
    /\ nextId = 1
    /\ qclosed = FALSE
    /\ events = [j \in Jobs |-> <<>>]
    /\ published = <<>>
    /\ closed = FALSE
    /\ allocated \in BOOLEAN
    /\ ct = <<>>
    /\ mu = Unlocked
    /\ fatal = FALSE
    /\ pub = [p \in 1 .. MaxPub |-> IdlePub]
    /\ can = [c \in 1 .. MaxCancel |-> IdleCan]
    /\ sub = [s \in 1 .. MaxSub |-> IdleSub]
    /\ cls = [k \in 1 .. MaxClose |-> IdleCls]
    /\ MarksIdle

\* The transaction requests alone: publish and cancel, and the jobs.
Next ==
    \/ \E p \in 1 .. MaxPub : PubPublish(p)
    \/ \E p \in 1 .. MaxPub : PubWriteBegin(p)
    \/ \E p \in 1 .. MaxPub : PubWriteEnd(p)
    \/ \E p \in 1 .. MaxPub : PubRespond(p)
    \/ \E c \in 1 .. MaxCancel : CancelLock(c)
    \/ \E c \in 1 .. MaxCancel : CancelLookup(c)
    \/ \E c \in 1 .. MaxCancel : CancelDelete(c)
    \/ MapThrow
    \/ \E j \in Jobs : WorkerStart(j)
    \/ \E j \in Jobs : RsBegin(j)
    \/ \E j \in Jobs : RsIterate(j)
    \/ \E j \in Jobs : RsTick(j)
    \/ \E j \in Jobs : RsCheckpoint(j)
    \/ \E j \in Jobs : RsExit(j)
    \/ \E j \in Jobs : WorkerFinish(j)

Spec == Init /\ [][Next]_vars

\* The status streams: refresh requests, status streams, and the jobs.
NextStream ==
    \/ \E p \in 1 .. MaxPub : PubPublish(p)
    \/ \E p \in 1 .. MaxPub : PubWriteBegin(p)
    \/ \E p \in 1 .. MaxPub : PubWriteEnd(p)
    \/ \E p \in 1 .. MaxPub : PubRespond(p)
    \/ MapThrow
    \/ \E s \in 1 .. MaxSub : SubSubscribe(s)
    \/ \E s \in 1 .. MaxSub : SubRecv(s)
    \/ \E s \in 1 .. MaxSub : SubClosed(s)
    \/ \E s \in 1 .. MaxSub : SubPing(s)
    \/ \E j \in Jobs : WorkerStart(j)
    \/ \E j \in Jobs : RsBegin(j)
    \/ \E j \in Jobs : RsIterate(j)
    \/ \E j \in Jobs : RsTick(j)
    \/ \E j \in Jobs : RsCheckpoint(j)
    \/ \E j \in Jobs : RsExit(j)
    \/ \E j \in Jobs : WorkerFinish(j)

SpecStream == Init /\ [][NextStream]_vars

\* The shutdown: refresh requests one at a time, status streams, calls of
\* Server.Close, and the jobs.
NextClose ==
    \/ \E p \in 1 .. MaxClosePub : PubPublish(p)
    \/ \E p \in 1 .. MaxClosePub : PubWriteBegin(p)
    \/ \E p \in 1 .. MaxClosePub : PubWriteEnd(p)
    \/ \E p \in 1 .. MaxClosePub : PubRespond(p)
    \/ \E s \in 1 .. MaxSub : SubSubscribe(s)
    \/ \E s \in 1 .. MaxSub : SubRecv(s)
    \/ \E s \in 1 .. MaxSub : SubClosed(s)
    \/ \E s \in 1 .. MaxSub : SubPing(s)
    \/ \E k \in 1 .. MaxClose : ServerClose(k)
    \/ \E k \in 1 .. MaxClose : ServerShutdown(k)
    \/ \E k \in 1 .. MaxClose : ServerCloseDrained(k)
    \/ \E j \in Jobs : WorkerStart(j)
    \/ \E j \in Jobs : RsBegin(j)
    \/ \E j \in Jobs : RsIterate(j)
    \/ \E j \in Jobs : RsTick(j)
    \/ \E j \in Jobs : RsCheckpoint(j)
    \/ \E j \in Jobs : RsExit(j)
    \/ \E j \in Jobs : WorkerFinish(j)

SpecClose == Init /\ [][NextClose]_vars

\* The two status-stream handlers: refresh requests one at a time, streams
\* served by handleTransactionUpdates or handleRefreshUpdates, and the jobs.
NextHandlers ==
    \/ \E p \in 1 .. MaxClosePub : PubPublish(p)
    \/ \E p \in 1 .. MaxClosePub : PubWriteBegin(p)
    \/ \E p \in 1 .. MaxClosePub : PubWriteEnd(p)
    \/ \E p \in 1 .. MaxClosePub : PubRespond(p)
    \/ \E s \in 1 .. MaxSub : SubSubscribe(s)
    \/ \E s \in 1 .. MaxSub : SubRecv(s)
    \/ \E s \in 1 .. MaxSub : SubClosed(s)
    \/ \E s \in 1 .. MaxSub : SubPing(s)
    \/ \E s \in 1 .. MaxSub : RefSubscribe(s)
    \/ \E s \in 1 .. MaxSub : RefRecv(s)
    \/ \E s \in 1 .. MaxSub : RefClosed(s)
    \/ \E s \in 1 .. MaxSub : RefPing(s)
    \/ \E j \in Jobs : WorkerStart(j)
    \/ \E j \in Jobs : RsBegin(j)
    \/ \E j \in Jobs : RsIterate(j)
    \/ \E j \in Jobs : RsTick(j)
    \/ \E j \in Jobs : RsCheckpoint(j)
    \/ \E j \in Jobs : RsExit(j)
    \/ \E j \in Jobs : WorkerFinish(j)

SpecHandlers == Init /\ [][NextHandlers]_vars

\* ------------------------------------------- direct calls of the service
\* RefreshStudents(ctx, refresh) called once, on any upstream and local state.
InitRefresh ==
    /\ upstream \in [PIDs -> {"absent", "attending", "left"}]
    /\ local \in [PIDs -> Rows]
    /\ ctxDone = [j \in Jobs |-> FALSE]
    /\ \E n \in 0 .. MaxN, purge \in BOOLEAN :
        rs = [j \in Jobs |->
                IF j = 1 THEN [IdleCall EXCEPT !.pc = "call", !.n = n, !.purge = purge]
                ELSE IdleCall]
    /\ nextId = 1
    /\ qclosed = FALSE
    /\ events = [j \in Jobs |-> <<>>]
    /\ published = <<>>
    /\ closed = FALSE
    /\ allocated = FALSE
    /\ ct = <<>>
    /\ mu = Unlocked
    /\ fatal = FALSE
    /\ pub = [p \in 1 .. MaxPub |-> IdlePub]
    /\ can = [c \in 1 .. MaxCancel |-> IdleCan]
    /\ sub = [s \in 1 .. MaxSub |-> IdleSub]
    /\ cls = [k \in 1 .. MaxClose |-> IdleCls]
    /\ MarksIdle

NextRefresh ==
    \/ RsBegin(1)
    \/ RsIterate(1)
    \/ RsTick(1)
    \/ RsCheckpoint(1)
    \/ RsExit(1)
    \/ CtxCancel(1)

SpecRefresh == InitRefresh /\ [][NextRefresh]_vars

\* RefreshStudents called a second time, with the first call's arguments, once
\* the first call has returned nil: upstream is as it was and the students
\* table is whatever the first call left.
RsAgain ==
    /\ ~fatal
    /\ rs[1].pc = "returned"
    /\ rs[1].err = Nil
    /\ rs[2].pc = "idle"
    /\ rs' = [rs EXCEPT ![2] = [IdleCall EXCEPT !.pc = "call", !.start = rs[1].start,
                                                !.n = rs[1].n, !.purge = rs[1].purge]]
    /\ UNCHANGED <<storeVars, markVars, ctxDone, queueVars, serverVars, handlerVars>>

NextAgain ==
    \/ \E j \in Jobs : RsBegin(j)
    \/ \E j \in Jobs : RsIterate(j)
    \/ \E j \in Jobs : RsTick(j)
    \/ \E j \in Jobs : RsCheckpoint(j)
    \/ \E j \in Jobs : RsExit(j)
    \/ \E j \in Jobs : CtxCancel(j)
    \/ RsAgain

SpecAgain == InitRefresh /\ [][NextAgain]_vars

\* ------------------------------------------- direct calls of the services
\* The rows of a set in a fixed order.
RECURSIVE SeqOfSet(_)
SeqOfSet(S) ==
    IF S = {} THEN <<>>
    ELSE LET x == CHOOSE y \in S : TRUE IN <<x>> \o SeqOfSet(S \ {x})

\* The marks tables a run starts from: at most one mark of the pupil for each
\* period and subject, each with a percentage the table accepts.
Tables ==
    {SeqOfSet(S) : S \in SUBSET {Mark(MarkPID, p, subj, MaxPct \div 2) :
                                    p \in Periods, subj \in Subjects}}

\* The students of Init, any marks table and any marksheets, either setting
\* of the services' fallback.
InitMarks ==
    /\ upstream = [pid \in PIDs |->
                    IF pid = FirstPID THEN "absent"
                    ELSE IF pid = FirstPID + 1 THEN "attending" ELSE "left"]
    /\ local = [pid \in PIDs |-> IF pid = FirstPID + 2 THEN Row(TRUE) ELSE Absent]
    /\ ctxDone = [j \in Jobs |-> FALSE]
    /\ rs = [j \in Jobs |-> IdleCall]
    /\ nextId = 1
    /\ qclosed = FALSE
    /\ events = [j \in Jobs |-> <<>>]
    /\ published = <<>>
    /\ closed = FALSE
    /\ allocated = FALSE
    /\ ct = <<>>
    /\ mu = Unlocked
    /\ fatal = FALSE
    /\ pub = [p \in 1 .. MaxPub |-> IdlePub]
    /\ can = [c \in 1 .. MaxCancel |-> IdleCan]
    /\ sub = [s \in 1 .. MaxSub |-> IdleSub]
    /\ cls = [k \in 1 .. MaxClose |-> IdleCls]
    /\ marks \in Tables
    /\ marks0 = marks
    /\ upMarks \in [Periods -> Sheets]
    /\ fallback \in BOOLEAN
    /\ fm = IdleFind
    /\ rm = IdleRm
    /\ fs = IdleFs
    /\ pr = IdleParse

\* No call is in progress and no result is held.
Quiet == fm = IdleFind /\ rm = IdleRm /\ rs = [j \in Jobs |-> IdleCall]

\* RefreshMarks(ctx, pid, from, to) is called.
RmCall(pid, from, to) ==
    /\ ~fatal
    /\ Quiet
    /\ rm' = [IdleRm EXCEPT !.pc = "call", !.pid = pid, !.from = from, !.to = to]
    /\ UNCHANGED <<storeVars, marks, marks0, upMarks, fallback, fm, fs, pr, ctxDone, rs,
                   queueVars, serverVars, handlerVars>>

\* RefreshStudents(ctx, refresh) is called.
RsCall(start, n, purge) ==
    /\ ~fatal
    /\ Quiet
    /\ rs' = [rs EXCEPT ![1] = [IdleCall EXCEPT !.pc = "call", !.start = start,
                                                !.pid = start, !.n = n, !.purge = purge]]
    /\ ctxDone' = [ctxDone EXCEPT ![1] = FALSE]
    /\ UNCHANGED <<storeVars, markVars, queueVars, serverVars, handlerVars>>

\* The caller has taken the results of the call that returned.
Forget ==
    /\ ~fatal
    /\ ~Quiet
    /\ fm.pc \in {"idle", "returned"}
    /\ rm.pc \in {"idle", "returned"}
    /\ \A j \in Jobs : rs[j].pc \in {"idle", "returned"}
    /\ fm' = IdleFind
    /\ rm' = IdleRm
    /\ rs' = [j \in Jobs |-> IdleCall]
    /\ ctxDone' = [j \in Jobs |-> FALSE]
    /\ UNCHANGED <<storeVars, marks, marks0, upMarks, fallback, fs, pr, queueVars,
                   serverVars, handlerVars>>

\* FindMarksByPeriod(ctx, pid, period) is called.
FmCall(pid, period) == Quiet /\ FindMarksByPeriod(pid, period)

NextMarks ==
    \/ \E pid \in {FirstPID, MarkPID}, period \in Periods \cup {AllPeriods} :
        FmCall(pid, period)
    \/ \E pid \in {FirstPID, MarkPID}, from \in Periods, to \in Periods :
        RmCall(pid, from, to)
    \/ RmBegin
    \/ RmIterate
    \/ RmTick
    \/ RmCheckpoint
    \/ RmExit
    \/ RmCancel
    \/ \E start \in PIDs, n \in 0 .. MaxN, purge \in BOOLEAN : RsCall(start, n, purge)
    \/ RsBegin(1)
    \/ RsIterate(1)
    \/ RsTick(1)
    \/ RsCheckpoint(1)
    \/ RsExit(1)
    \/ CtxCancel(1)
    \/ Forget

SpecMarks == InitMarks /\ [][NextMarks]_vars

\* The services and the server at rest, nothing published.
AtRest ==
    /\ ctxDone = [j \in Jobs |-> FALSE]
    /\ rs = [j \in Jobs |-> IdleCall]
    /\ nextId = 1
    /\ qclosed = FALSE
    /\ events = [j \in Jobs |-> <<>>]
    /\ published = <<>>
    /\ closed = FALSE
    /\ allocated = FALSE
    /\ ct = <<>>
    /\ mu = Unlocked
    /\ fatal = FALSE
    /\ pub = [p \in 1 .. MaxPub |-> IdlePub]
    /\ can = [c \in 1 .. MaxCancel |-> IdleCan]
    /\ sub = [s \in 1 .. MaxSub |-> IdleSub]
    /\ cls = [k \in 1 .. MaxClose |-> IdleCls]

\* GetMarkFromRender on any two well-formed records.
InitParse ==
    /\ AtRest
    /\ upstream = [pid \in PIDs |-> "absent"]
    /\ local = [pid \in PIDs |-> Absent]
    /\ marks = <<>>
    /\ marks0 = <<>>
    /\ upMarks = [p \in Periods |-> <<>>]
    /\ fallback = FALSE
    /\ fm = IdleFind
    /\ rm = IdleRm
    /\ fs = IdleFs
    /\ \E first \in RecordFields, second \in RecordFields :
        pr = [pc |-> "input", first |-> first, second |-> second]

NextParse == GetMarkFromRenderTwo

SpecParse == InitParse /\ [][NextParse]_vars

\* GetMarkFromRender on one record of any shape.
InitShaped ==
    /\ AtRest
    /\ upstream = [pid \in PIDs |-> "absent"]
    /\ local = [pid \in PIDs |-> Absent]
    /\ marks = <<>>
    /\ marks0 = <<>>
    /\ upMarks = [p \in Periods |-> <<>>]
    /\ fallback = FALSE
    /\ fm = IdleFind
    /\ rm = IdleRm
    /\ fs = IdleFs
    /\ \E f \in RecordFields, shape \in Shapes :
        pr = [pc |-> "render", fields |-> f, shape |-> shape]

NextShaped == GetMarkFromRenderOne

SpecShaped == InitShaped /\ [][NextShaped]_vars

\* NameFromRender on a render with or without a span.
InitName ==
    /\ AtRest
    /\ upstream = [pid \in PIDs |-> "absent"]
    /\ local = [pid \in PIDs |-> Absent]
    /\ marks = <<>>
    /\ marks0 = <<>>
    /\ upMarks = [p \in Periods |-> <<>>]
    /\ fallback = FALSE
    /\ fm = IdleFind
    /\ rm = IdleRm
    /\ fs = IdleFs
    /\ \E lead \in Leads, name \in Names, span \in BOOLEAN :
        pr = [pc |-> "page", lead |-> lead, name |-> name, span |-> span]

NextName == NameFromRenderPage

SpecName == InitName /\ [][NextName]_vars

\* CurrentYearFromRender on a render of no, one or two year tokens.
InitYear ==
    /\ AtRest
    /\ upstream = [pid \in PIDs |-> "absent"]
    /\ local = [pid \in PIDs |-> Absent]
    /\ marks = <<>>
    /\ marks0 = <<>>
    /\ upMarks = [p \in Periods |-> <<>>]
    /\ fallback = FALSE
    /\ fm = IdleFind
    /\ rm = IdleRm
    /\ fs = IdleFs
    /\ \E first \in YearTokens \cup {NoToken}, between \in Leads,
          second \in YearTokens \cup {NoToken} :
        pr = [pc |-> "years", first |-> first, between |-> between, second |-> second]

NextYear == CurrentYearFromRenderPage

SpecYear == InitYear /\ [][NextYear]_vars

\* The two mappings on any code and any status.
InitCodes ==
    /\ AtRest
    /\ upstream = [pid \in PIDs |-> "absent"]
    /\ local = [pid \in PIDs |-> Absent]
    /\ marks = <<>>
    /\ marks0 = <<>>
    /\ upMarks = [p \in Periods |-> <<>>]
    /\ fallback = FALSE
    /\ fm = IdleFind
    /\ rm = IdleRm
    /\ fs = IdleFs
    /\ \E code \in CodeInputs, status \in StatusInputs :
        pr = [pc |-> "codes", code |-> code, status |-> status]

NextCodes == MapBothWays

SpecCodes == InitCodes /\ [][NextCodes]_vars

\* SendErr on any error.
InitSend ==
    /\ AtRest
    /\ upstream = [pid \in PIDs |-> "absent"]
    /\ local = [pid \in PIDs |-> Absent]
    /\ marks = <<>>
    /\ marks0 = <<>>
    /\ upMarks = [p \in Periods |-> <<>>]
    /\ fallback = FALSE
    /\ fm = IdleFind
    /\ rm = IdleRm
    /\ fs = IdleFs
    /\ \E err \in SentErrors : pr = [pc |-> "error", err |-> err]

NextSend == SendErrOf

SpecSend == InitSend /\ [][NextSend]_vars

\* updateStudent on any local and upstream list of subjects.
InitSubjects ==
    /\ AtRest
    /\ upstream = [pid \in PIDs |-> "absent"]
    /\ local = [pid \in PIDs |-> Absent]
    /\ marks = <<>>
    /\ marks0 = <<>>
    /\ upMarks = [p \in Periods |-> <<>>]
    /\ fallback = FALSE
    /\ fm = IdleFind
    /\ rm = IdleRm
    /\ fs = IdleFs
    /\ \E prev \in SubjectLists, next \in SubjectLists :
        pr = [pc |-> "subjects", prev |-> prev, next |-> next]

NextSubjects == UpdateStudentSubjects

SpecSubjects == InitSubjects /\ [][NextSubjects]_vars

\* createDiff applied again and again to any marks table.
InitDiff ==
    /\ AtRest
    /\ upstream = [pid \in PIDs |-> "absent"]
    /\ local = [pid \in PIDs |-> IF pid = MarkPID THEN Row(TRUE) ELSE Absent]
    /\ marks \in Tables
    /\ marks0 = marks
    /\ upMarks = [p \in Periods |-> <<>>]
    /\ fallback = FALSE
    /\ fm = IdleFind
    /\ rm = IdleRm
    /\ fs = IdleFs
    /\ pr = IdleParse

NextDiff == CreateDiffApply

SpecDiff == InitDiff /\ [][NextDiff]_vars

\* DeleteStudent on any table of students.
InitDelete ==
    /\ AtRest
    /\ upstream = [p \in PIDs |-> "absent"]
    /\ local \in [PIDs -> Rows]
    /\ marks = <<>>
    /\ marks0 = <<>>
    /\ upMarks = [p \in Periods |-> <<>>]
    /\ fallback = FALSE
    /\ fm = IdleFind
    /\ rm = IdleRm
    /\ fs = IdleFs
    /\ pr = IdleParse

NextDelete == \E pid \in PIDs : DeleteStudent(pid)

SpecDelete == InitDelete /\ [][NextDelete]_vars

\* createStudent and updateStudent on any table of students whose rows hold
\* a year exactly when the student attends.
InitStored ==
    /\ AtRest
    /\ upstream = [p \in PIDs |-> "absent"]
    /\ local = [p \in PIDs |-> Absent]
    /\ marks = <<>>
    /\ marks0 = <<>>
    /\ upMarks = [p \in Periods |-> <<>>]
    /\ fallback = FALSE
    /\ fm = IdleFind
    /\ rm = IdleRm
    /\ fs = IdleFs
    /\ \E table \in [PIDs -> YearRows] : pr = [pc |-> "idle", students |-> table]

NextStored ==
    \/ CreateStudentYear
    \/ UpdateStudentYear

SpecStored == InitStored /\ [][NextStored]_vars

\* FindStudentByPID on any upstream and local state, either fallback.
InitFind ==
    /\ AtRest
    /\ upstream \in [PIDs -> {"absent", "attending", "left"}]
    /\ local \in [PIDs -> Rows]
    /\ marks = <<>>
    /\ marks0 = <<>>
    /\ upMarks = [p \in Periods |-> <<>>]
    /\ fallback \in BOOLEAN
    /\ fm = IdleFind
    /\ rm = IdleRm
    /\ fs = IdleFs
    /\ pr = IdleParse

NextFind == \E pid \in PIDs : FindStudentByPID(pid)

SpecFind == InitFind /\ [][NextFind]_vars

\* ------------------------------------------------------------ properties
\* The pupil ids one call covers.
Range(call) == (call.start .. (call.start + call.n - 1)) \cap PIDs
\* The positions of the terminal statuses in a sequence of statuses.
Terminals(seq) == {i \in 1 .. Len(seq) : seq[i] \in Terminal}

C4_Cancel ==
    [][\A c \in 1 .. MaxCancel :
        /\ (can[c].pc = "locked" /\ can[c].id \notin DOMAIN ct /\ can'[c] # can[c])
              => /\ can'[c].pc = "done"
                 /\ can'[c].resp = 404
                 /\ UNCHANGED <<ct, ctxDone, rs, events>>
        /\ (can[c].pc # "done" /\ can'[c].pc = "done" /\ can'[c].resp = 204)
              => /\ ctxDone'[can[c].id]
                 /\ can[c].id \notin DOMAIN ct'
        /\ (/\ can[c].pc = "locked"
            /\ can'[c] # can[c]
            /\ \E d \in 1 .. MaxCancel :
                d # c /\ can[d].pc = "done" /\ can[d].resp = 204 /\ can[d].id = can[c].id)
              => can'[c].resp = 404]_vars

\* C4 witness: two requests for one id, the first answered 204 with the
\* context cancelled and the id removed, the second 404.
C4_Witness ==
    \E c, d \in 1 .. MaxCancel :
        /\ c # d
        /\ can[c].pc = "done" /\ can[c].resp = 204
        /\ can[d].pc = "done" /\ can[d].resp = 404 /\ can[d].id = can[c].id
        /\ ctxDone[can[c].id]
        /\ can[c].id \notin DOMAIN ct

\* C5: a handler inside an access of cancelTransactions holds transactionMu,
\* and no two handlers are at an access at once with one of them writing.
C5_MapUnderMutex ==
    /\ \A p \in 1 .. MaxPub : Writing(p) => mu = <<"publish", p>>
    /\ ~MapRace

\* C6: the ids Publish assigned are strictly increasing in publish order,
\* no two requests got the same id, and every entry of cancelTransactions
\* holds the cancel func of the job it is keyed by.
C6_UniqueIncreasingIds ==
    /\ \A a, b \in 1 .. Len(published) : a < b => published[a] < published[b]
    /\ \A p, q \in 1 .. MaxPub :
        (p # q /\ pub[p].id # 0 /\ pub[q].id # 0) => pub[p].id # pub[q].id
    /\ \A k \in DOMAIN ct : ct[k] = k

\* C6 witness: two jobs published, both with their entry in the map.
C6_Witness ==
    /\ Len(published) >= 2
    /\ Cardinality(DOMAIN ct) >= 2

\* C7: once the queue is closed it stays closed, a publish request and a
\* subscribe request answer 500 and leave the queue as it is, and a Close
\* after the first returns nil and changes nothing.
C7_ClosedQueue ==
    [][/\ qclosed => qclosed'
       /\ \A p \in 1 .. MaxPub :
            (qclosed /\ pub[p].pc = "idle" /\ pub'[p] # pub[p])
                => /\ pub'[p].pc = "done"
                   /\ pub'[p].resp = 500
                   /\ UNCHANGED <<queueVars, rs, allocated, ct>>
       /\ \A s \in 1 .. MaxSub :
            (qclosed /\ sub[s].pc = "idle" /\ sub'[s] # sub[s])
                => /\ sub'[s].pc = "done"
                   /\ sub'[s].resp = 500
                   /\ ~sub'[s].open
       /\ \A k \in 1 .. MaxClose :
            (closed /\ cls[k].pc = "idle" /\ cls'[k] # cls[k])
                => /\ cls'[k] = [pc |-> "done", ret |-> Nil]
                   /\ UNCHANGED <<storeVars, markVars, ctxDone, rs, queueVars, serverVars, pub, can, sub>>
      ]_vars

\* C7 witness: the queue closed, then a publish and a subscribe answered
\* 500 and a second Close returned.
C7_Witness ==
    /\ qclosed
    /\ \E p \in 1 .. MaxPub : pub[p].pc = "done" /\ pub[p].resp = 500
    /\ \E s \in 1 .. MaxSub : sub[s].pc = "done" /\ sub[s].resp = 500
    /\ \E k, l \in 1 .. MaxClose :
        k # l /\ cls[k].pc \in {"draining", "done"} /\ cls[l] = [pc |-> "done", ret |-> Nil]

WellFormed(seq) ==
    Len(seq) > 0 =>
        /\ seq[1] = "Queued"
        /\ \A i \in 2 .. Len(seq) : seq[i] # "Queued"
        /\ \A i \in 1 .. (Len(seq) - 1) : seq[i] \notin Terminal

\* C9: every job's statuses follow Queued, Running*, terminal, and what a
\* subscriber has been sent is a run of consecutive statuses of its job in
\* the order of emission, none repeated and none skipped.
C9_StatusOrder ==
    /\ \A j \in Jobs : WellFormed(events[j])
    /\ \A s \in 1 .. MaxSub :
        sub[s].got # <<>> =>
            LET first == sub[s].pos - Len(sub[s].got) IN
            /\ first >= 1
            /\ sub[s].got = SubSeq(events[sub[s].id], first, sub[s].pos - 1)

\* C9 witness: a subscriber was sent the whole life of a job.
C9_Witness ==
    \E s \in 1 .. MaxSub : sub[s].got = <<"Queued", "Running", "Done">>

\* C10: after RefreshStudents with purge returned nil, for every pid of the
\* range: absent upstream and absent before is absent, attending upstream
\* and absent before is present, not attending upstream and present before
\* is absent.
C10_DecisionTable ==
    \A j \in Jobs :
        (rs[j].pc = "returned" /\ rs[j].err = Nil /\ rs[j].purge) =>
            \A pid \in Range(rs[j]) :
                /\ (upstream[pid] = "absent" /\ ~rs[j].before[pid].present)
                      => ~local[pid].present
                /\ (upstream[pid] = "attending" /\ ~rs[j].before[pid].present)
                      => local[pid].present
                /\ (upstream[pid] = "left" /\ rs[j].before[pid].present)
                      => ~local[pid].present

\* C11: RefreshStudents is idempotent on writes: a second call over the same
\* range, with upstream unchanged and the students table as the first call
\* left it, executes no INSERT, UPDATE or DELETE.
C11_SecondRunWritesNothing ==
    (rs[2].pc = "returned" /\ rs[2].err = Nil) => rs[2].writes = 0

\* C12: FindMarksByPeriod sends a request to the engage client only for a full
\* period with fallback enabled: a call for a period that is not full, or with
\* fallback disabled, has sent none when it returns.
C12_UpstreamOnlyOnFullFallback ==
    fm.pc = "returned" =>
        /\ (~Full(fm.period) \/ ~fallback) => fm.calls = 0
        /\ fm.calls > 0 => (Full(fm.period) /\ fallback)
\* A call for a period that is not full has returned the local marks without a
\* request, with fallback enabled and marks upstream.
C12_Witness ==
    /\ fm.pc = "returned" /\ ~Full(fm.period) /\ fallback /\ fm.err = Nil
    /\ fm.result # <<>> /\ fm.calls = 0
    /\ \E p \in Periods : upMarks[p] # <<>>

\* A mark whose percentage the marks table accepts.
InRange(mark) == mark.pct >= MinPct /\ mark.pct <= MaxPct
MarkOf(f) == [pct |-> DecimalValue(f.numeral), subject |-> f.subject,
              teacher |-> f.teacher]
\* C14: for a buffer of two concatenated well-formed records GetMarkFromRender
\* returns the first record and the offset just after it, and GetMarkFromRender
\* on the rest from that offset returns the percentage, subject and teacher
\* that parsing the second record alone returns.
C14_ResumptionOffset ==
    pr.pc = "parsed" =>
        /\ pr.whole.kind = "ok"
        /\ pr.whole.mark = MarkOf(pr.first)
        /\ pr.whole.n = Len(Bytes(pr.first))
        /\ pr.resumed.kind = "ok"
        /\ pr.alone.kind = "ok"
        /\ pr.resumed.mark = pr.alone.mark

\* C15: when the student is absent locally and engage answers with success
\* and no data row, FindStudentByPID returns an error of kind NotFound and no
\* student, and creates no local student.
C15_EmptyAnswerNotFound ==
    (fs.pc = "returned" /\ fs.answer = "empty") =>
        /\ ~fs.before[fs.pid].present
        /\ fs.calls = 1
        /\ ErrorCode(fs.err) = ENOTFOUND
        /\ ~fs.found
        /\ local = fs.before
\* Such a call has returned, with fallback set.
C15_Witness ==
    /\ fs.pc = "returned" /\ fs.answer = "empty" /\ fallback
    /\ ~local[fs.pid].present /\ upstream[fs.pid] = "absent"
    /\ ErrorCode(fs.err) = ENOTFOUND

C17_AtomicOnFailure ==
    /\ \A j \in Jobs :
        (rs[j].pc = "returned" /\ rs[j].err # Nil /\ rs[j].before # NoTx)
            => (local = rs[j].before /\ marks = marks0)
    /\ (rm.pc = "returned" /\ rm.err # Nil /\ rm.before # NoTx)
            => marks = rm.before
\* RefreshStudents has written to the students table inside its transaction
\* and then returned an error.
C17_Witness ==
    /\ rs[1].pc = "returned" /\ rs[1].err # Nil /\ rs[1].writes > 0
    /\ local = rs[1].before

\* C18: within a RefreshStudents or RefreshMarks call the next pid or period
\* is not taken up before a full pacing interval has passed since the
\* previous one was finished, and a call whose context is cancelled during
\* that wait leaves it only by returning a cancellation error, having taken up
\* no further pid or period.
C18_Pacing ==
    [][/\ \A j \in Jobs :
            /\ (rs[j].pc = "checkpoint" /\ rs'[j].pc = "loop")
                => (rs[j].waited >= RequestTimeout /\ ~ctxDone[j])
            /\ (rs[j].pc = "checkpoint" /\ ctxDone[j] /\ rs'[j].pc # "checkpoint")
                => (/\ rs'[j].pc = "returned"
                    /\ rs'[j].err \in CancellationErrs
                    /\ local' = local)
       /\ (rm.pc = "checkpoint" /\ rm'.pc = "loop")
            => (rm.waited >= RequestTimeout /\ ~rm.done)
       /\ (rm.pc = "checkpoint" /\ rm.done /\ rm'.pc # "checkpoint")
            => (rm'.pc = "returned" /\ rm'.err \in CancellationErrs /\ marks' = marks)
      ]_vars
\* RefreshStudents is about to take up its second pid after a wait it has
\* completed.
C18_Witness ==
    rs[1].pc = "loop" /\ rs[1].i = 1 /\ rs[1].n > 1 /\ ~ctxDone[1]

\* The rows of a table for a pupil, period and subject.
Has(table, pid, period, subject) ==
    \E i \in 1 .. Len(table) :
        table[i].pid = pid /\ table[i].period = period /\ table[i].subject = subject
\* C19: after RefreshMarks(pid, from, to) has returned nil, every upstream
\* mark of a period of the range whose subject had no local mark in that
\* period is in the marks table.
C19_NewMarksPersisted ==
    (rm.pc = "returned" /\ rm.err = Nil /\ rm.pid = MarkPID) =>
        \A p \in rm.from .. rm.to : \A k \in 1 .. Len(upMarks[p]) :
            ~Has(rm.before, rm.pid, p, upMarks[p][k].subject)
                => Has(marks, rm.pid, p, upMarks[p][k].subject)

\* C20: FindMarksByPeriod for a full period with fallback enabled returns the
\* merged set: no mark the table held for the pupil and period is missing
\* from the result.
C20_MergedResult ==
    (fm.pc = "returned" /\ fm.err = Nil /\ Full(fm.period) /\ fallback
        /\ fm.pid = MarkPID) =>
        \A i \in 1 .. Len(fm.before) :
            (fm.before[i].pid = fm.pid /\ fm.before[i].period = fm.period)
                => Has(fm.result, fm.pid, fm.period, fm.before[i].subject)

\* C21: an error of the upstream marksheet fetch is returned to the caller of
\* FindMarksByPeriod with its kind unchanged, and RefreshMarks never goes on
\* past the diff of a period whose fetch failed.
C21_FetchErrorPropagated ==
    /\ (fm.pc = "returned" /\ fm.fetch # Nil) =>
            (fm.err # Nil /\ ErrorCode(fm.err) = ErrorCode(fm.fetch))
    /\ rm.pc = "checkpoint" => rm.fetch = Nil

\* C22: when a percentage token is found in a record that lacks one of the
\* two commas around the subject or the tag after the teacher,
\* GetMarkFromRender returns no mark and the error "unexpected buffer index",
\* and it does not panic.
C22_StructuralError ==
    (pr.pc = "marked" /\ pr.found /\ pr.shape # "full") =>
        /\ pr.res.kind = "err"
        /\ pr.res.mark = NoMark
        /\ pr.res.err = PlainErr("unexpected buffer index")

\* C23: NameFromRender returns the text between the tags of the first span,
\* whatever characters it begins and ends with, and the offset just after the
\* span; without a span it returns NotFound.
C23_NameIsEnclosedText ==
    pr.pc = "named" =>
        IF pr.span
        THEN /\ pr.res.err = Nil
             /\ pr.res.name = pr.name
             /\ pr.res.n = Len(Page(pr.lead, pr.name, pr.span))
        ELSE ErrorCode(pr.res.err) = ENOTFOUND

\* The last year token of a render of two.
LastToken(first, second) == IF second # NoToken THEN second ELSE first
\* C24: CurrentYearFromRender returns the number of the last year token of
\* the render, whatever tokens come before it, and NotFound when the render
\* has none.
C24_LastYearToken ==
    pr.pc = "yeared" =>
        IF LastToken(pr.first, pr.second) = NoToken
        THEN ErrorCode(pr.res.err) = ENOTFOUND
        ELSE pr.res.err = Nil /\ pr.res.year = LastToken(pr.first, pr.second).val

\* The status the specification gives each of the six kinds.
StatusOfKind(kind) ==
    CASE kind = ECONFLICT -> 409
      [] kind = EINVALID -> 400
      [] kind = ENOTFOUND -> 404
      [] kind = ENOTIMPLEMENTED -> 501
      [] kind = EUNAUTHORIZED -> 401
      [] kind = EINTERNAL -> 500
SixKinds == {ECONFLICT, EINVALID, ENOTFOUND, ENOTIMPLEMENTED, EUNAUTHORIZED, EINTERNAL}
\* C25: each of the six kinds is mapped to its status and that status back
\* to the kind, any other kind to 500; each of the six statuses is mapped to
\* one kind, whatever the order of the loop, and that kind forth to the
\* status, any other status to Internal; decodeError carries that kind.
C25_MutuallyInverse ==
    pr.pc = "mapped" =>
        /\ pr.code \in SixKinds =>
                (pr.toStatus = StatusOfKind(pr.code) /\ pr.back = pr.code)
        /\ pr.code \notin SixKinds => pr.toStatus = 500
        /\ (\E k \in SixKinds : StatusOfKind(k) = pr.status) =>
                (StatusOfKind(pr.kind) = pr.status /\ pr.forth = pr.status)
        /\ (\A k \in SixKinds : StatusOfKind(k) # pr.status) => pr.kind = EINTERNAL
        /\ ErrorCode(pr.decoded) = pr.kind

\* The status 401 has been mapped to Unauthorized and back.
C25_Witness ==
    /\ pr.pc = "mapped" /\ pr.status = 401 /\ pr.kind = EUNAUTHORIZED /\ pr.forth = 401
    /\ pr.code = EINVALID /\ pr.toStatus = 400 /\ pr.back = EINVALID

\* C26: for a domain error of kind k and message m, ErrorCode returns k,
\* ErrorMessage returns m and the response of SendErr carries the status of k
\* and the message m; any other error is Internal, with status 500 and the
\* generic internal message.
C26_ResponseCarriesMessage ==
    pr.pc = "sent" =>
        IF pr.err.kind = "csb"
        THEN /\ pr.code = pr.err.code
             /\ pr.message = pr.err.msg
             /\ pr.resp.Status = FromErrorCodeToStatus(pr.err.code)
             /\ pr.resp.Trace = pr.err.msg
        ELSE /\ pr.code = EINTERNAL
             /\ pr.message = "internal error"
             /\ pr.resp.Status = 500
             /\ pr.resp.Trace = "internal error"

\* C27: the context of a published job is cancelled only by a Cancel request
\* that found the job's cancel func; the return of the handler that published
\* the job does not end it.
C27_CancelledOnlyByCancel ==
    \A j \in Jobs :
        ctxDone[j] =>
            \E c \in 1 .. MaxCancel :
                /\ can[c].id = j
                /\ \/ can[c].pc = "found"
                   \/ can[c].pc = "done" /\ can[c].resp = 204

\* C28: for a pid engage knows as not attending and the students table does
\* not hold, RefreshStudents with purge creates no student, in its
\* transaction or in the table; without purge it does not fail on the
\* creation, and once it has returned nil the student is in the table.
C28_PurgeSkipsCreation ==
    \A j \in Jobs : \A pid \in PIDs :
        (rs[j].before # NoTx /\ upstream[pid] = "left" /\ ~rs[j].before[pid].present) =>
            /\ rs[j].purge =>
                    /\ ~local[pid].present
                    /\ rs[j].tx # NoTx => ~rs[j].tx[pid].present
            /\ (~rs[j].purge /\ rs[j].pc = "returned" /\ rs[j].n > 0
                    /\ pid = rs[j].start) =>
                    /\ rs[j].err # PlainErr("sql: syntax error")
                    /\ rs[j].err = Nil => local[pid].present

\* The elements of a sequence.
Elems(seq) == {seq[i] : i \in 1 .. Len(seq)}
\* C29: for every local and upstream list of subjects, updateStudent ends
\* without a panic or an error with the student taking the local subjects and
\* the upstream subjects whose engage code the local list lacks, and no
\* other.
C29_SubjectsAppended ==
    pr.pc = "updated" =>
        /\ pr.res.kind = "ok"
        /\ Elems(pr.res.subjects) = Elems(pr.prev) \cup Elems(pr.next)

\* C30: a student of the table whose pid engage does not know is left as it
\* was by RefreshStudents, with or without purge: its row in the transaction
\* and in the table is the row the call found, and when it is the first pid
\* of the range the loop has gone on to the next pid without a write.
C30_UnknownUpstreamUntouched ==
    \A j \in Jobs : \A pid \in PIDs :
        (rs[j].tx # NoTx /\ upstream[pid] = "absent" /\ rs[j].before[pid].present) =>
            /\ rs[j].tx[pid] = rs[j].before[pid]
            /\ local[pid] = rs[j].before[pid]
            /\ (pid = rs[j].start /\ rs[j].pid = pid + 1) => rs[j].writes = 0
\* RefreshStudents with purge has passed a first pid that engage does not
\* know and the table holds, and waits before the next pid.
C30_Witness ==
    /\ rs[1].pc = "checkpoint" /\ rs[1].purge /\ rs[1].pid = rs[1].start + 1
    /\ upstream[rs[1].start] = "absent" /\ rs[1].before[rs[1].start].present
    /\ rs[1].tx[rs[1].start] = rs[1].before[rs[1].start]

\* No two rows of a table share pupil, period and subject name.
OnePerSubject(table) ==
    \A i, k \in 1 .. Len(table) :
        (i # k /\ table[i].pid = table[k].pid /\ table[i].period = table[k].period)
            => table[i].subject # table[k].subject
C32_QueryErrorReturned ==
    (fm.pc = "returned" /\ ~Full(fm.period) /\ fm.query # Nil) =>
        (fm.err # Nil /\ ~fm.committed)

\* C33: a DeleteStudent call returns no error only when the student was in the
\* table, was deleted and the deletion was committed; it returns ENOTFOUND and
\* leaves the table as it was when the student was not in it; it returns an
\* error when its transaction could not be started.
C33_DeleteReported ==
    pr.pc = "deleted" =>
        /\ pr.err = Nil =>
            (pr.before[pr.pid].present /\ ~local[pr.pid].present /\ pr.committed)
        /\ (pr.begun /\ ~pr.before[pr.pid].present) =>
            (ErrorCode(pr.err) = ENOTFOUND /\ local = pr.before)
        /\ ~pr.begun => pr.err # Nil

\* C34: a FindStudentByPID call does not ask engage for a student that is in
\* the table; a student that is not in the table, is found in engage and is
\* returned with the fallback set has been saved and committed; and a save
\* that failed is returned as an error.
C34_SavedBeforeReturned ==
    fs.pc = "returned" =>
        /\ fs.before[fs.pid].present => fs.calls = 0
        /\ (~fs.before[fs.pid].present /\ fs.answer = "rows" /\ fallback
                /\ fs.found /\ fs.err = Nil) =>
            (fs.committed /\ local[fs.pid].present)
        /\ fs.save # Nil => fs.err # Nil

\* C35: a status-stream handler that returned because the stream was closed,
\* a status could not be encoded, a write to the peer failed or a ping failed
\* has closed its subscription.
C35_SubscriptionClosed ==
    \A s \in 1 .. MaxSub :
        (sub[s].pc = "done" /\ sub[s].exit \in {"closed", "marshal", "write", "ping"}) =>
            ~sub[s].open

\* C36: once the server is marked closed and no Close call is still inside
\* server.Shutdown, WorkQueue.Close has been invoked, whatever Shutdown
\* returned; and a Close call on a server marked closed returns nil and
\* changes nothing else.
C36_QueueClosedWithServer ==
    [][/\ (closed' /\ \A k \in 1 .. MaxClose : cls'[k].pc # "shutdown") => qclosed'
       /\ \A k \in 1 .. MaxClose :
            (closed /\ cls[k].pc = "idle" /\ cls'[k] # cls[k])
                => /\ cls'[k] = [pc |-> "done", ret |-> Nil]
                   /\ UNCHANGED <<queueVars, closed>>
      ]_vars

\* C37: every row of the students table holds a current year exactly when
\* its student attends school; the values createStudent and updateStudent
\* bind are NULL for a student that does not attend and the year engage
\* reports for one that does, and the row updateStudent wrote holds them.
C37_YearIffAttends ==
    /\ \A pid \in PIDs :
        pr.students[pid].present =>
            (~pr.students[pid].current_year.null <=> pr.students[pid].attends)
    /\ pr.pc \in {"created", "updated"} =>
        /\ pr.args.attends = pr.attends
        /\ pr.args.current_year = IF pr.attends THEN SqlInt(pr.year) ELSE SqlNull
    /\ (pr.pc = "updated" /\ pr.err = Nil) => pr.students[pr.pid] = pr.args

\* C37 witness: updateStudent has written the row of a student that attended
\* and attends no more, next to a row that holds a year.
C37_Witness ==
    /\ pr.pc = "updated" /\ pr.err = Nil /\ ~pr.attends
    /\ pr.students[pr.pid] = YearRow(FALSE, SqlNull)
    /\ \E pid \in PIDs : pr.students[pid].present /\ pr.students[pid].attends
                         /\ ~pr.students[pid].current_year.null

====
